---- MODULE Spec2Model ----
(***************************************************************************)
(* State-machine model of the codescan DLP engine: the index and scan      *)
(* pipelines (backend/indexer.py, backend/scanner.py), the progress store  *)
(* (backend/progress_store.py) and the two storage backends               *)
(* (backend/storage_sqlite.py, backend/storage_redis.py).                  *)
(***************************************************************************)
EXTENDS Integers, Sequences, FiniteSets, TLC

VARIABLES
    backend,       \* storage_config_store.config.backend: "sqlite" | "redis"
    threading,     \* storage_config_store.config.threading_config.enabled
    storeUp,       \* TRUE while the configured store answers
    patterns,      \* ignored_files_store._config.patterns
    fs,            \* the directory tree: path -> file or NoFile
    files,         \* the store's IndexedFile rows / file:* documents
    results,       \* the store's ScanResult rows / result:* documents
    nextId,        \* source of fresh uuid4 values
    now,           \* wall clock (datetime.now)
    tasks,         \* ProgressStore._tasks
    cancelledSet,  \* ProgressStore._cancelled
    ix,            \* locals of the index pipeline
    sc,            \* locals of the scan pipeline
    pool,          \* ThreadPoolExecutor: futures and worker threads
    cn,            \* the stop / cancel request in flight
    hist           \* history of what was observed (used by the properties only)

vars == <<backend, threading, storeUp, patterns, fs, files, results, nextId, now,
          tasks, cancelledSet, ix, sc, pool, cn, hist>>

-----------------------------------------------------------------------------
(* Bounds of the model *)

MaxClock == 4
MaxWorkers == 2
MaxOutages == 1
MaxFsChanges == 2

\* st_mtime values: the code only compares them for equality
Mtimes == {1, 2}

-----------------------------------------------------------------------------
(* The directory tree *)

\* None, in the places the code uses it
NoFile == [none |-> "file"]
NoRec == [none |-> "row"]
NoTask == [none |-> "task"]
NoVec == <<"none">>

PathA == "/d/a.txt"
PathUpperA == "/d/A.txt"
PathB == "/d/b.dat"
PathLog == "/d/app.log"
Paths == {PathA, PathUpperA, PathB, PathLog}

\* os.walk yields the names of a directory in one listing; the model fixes the order
WalkOrder == <<PathA, PathUpperA, PathB, PathLog>>

basename(p) ==
    CASE p = PathA -> "a.txt"
      [] p = PathUpperA -> "A.txt"
      [] p = PathB -> "b.dat"
      [] OTHER -> "app.log"

splitext(name) ==
    CASE name \in {"a.txt", "A.txt"} -> ".txt"
      [] name = "b.dat" -> ".dat"
      [] OTHER -> ".log"

\* str.lower() on the names and paths of the model
lower(s) ==
    CASE s = "A.txt" -> "a.txt"
      [] s = PathUpperA -> PathA
      [] OTHER -> s

\* file contents: two long texts ("text1", "text2"), a text below min_content_length
\* ("short"), and bytes that do not decode as UTF-8 ("bin1", "bin2")
decodes_utf8(c) == c \in {"text1", "text2", "short"}
min_content_length_reached(c) == c \in {"text1", "text2"}

CODE_EXTENSIONS == {".txt"}

\* mimetypes.guess_type(...) starts with "text"
mime_is_text(p) == splitext(basename(p)) \in {".txt", ".log"}

get_file_type(p, f) ==
    IF splitext(basename(p)) \in CODE_EXTENSIONS THEN "text"
    ELSE IF mime_is_text(p) THEN "text"
    ELSE IF f.readable /\ decodes_utf8(f.content) THEN "text"
    ELSE "binary"

is_text_file(p, f) == get_file_type(p, f) # "binary"

\* hashlib.sha256 of the bytes (collisions are not modelled)
sha256(c) == <<"sha256", c>>

\* compute_vector(filepath): None for empty or short content
compute_vector(p, f) ==
    IF min_content_length_reached(f.content) THEN <<"vec", f.content>> ELSE NoVec

-----------------------------------------------------------------------------
(* The ignore matcher *)

Patterns == {"*.log"}

fnmatch(name, pat) ==
    IF pat = "*.log" THEN splitext(name) = ".log" ELSE name = pat

has_wildcard(pat) == pat = "*.log"

\* an ignore list that matches nothing
never_ignore(name) == FALSE

should_ignore(name) ==
    \E pat \in patterns :
        \/ fnmatch(name, pat)
        \/ (~has_wildcard(pat) /\ lower(name) = lower(pat))

-----------------------------------------------------------------------------
(* The store *)

IdsOf(fset) == {r.id : r \in fset}

SetMax(S) == CHOOSE x \in S : \A y \in S : y <= x

\* INTEGER PRIMARY KEY of indexed_files: one more than the largest rowid in use
sqlite_next_id(fset) == IF fset = {} THEN 1 ELSE SetMax(IdsOf(fset)) + 1

\* RediSearch evaluates @path:<text> on a TEXT field: the terms are compared after
\* lower-casing, so the query for one path also finds a document whose path differs
\* from it in letter case only
redis_path_query(fset, path) == {r \in fset : lower(r.path) = lower(path)}

\* _get_file_id_by_path: the candidates for results.docs[0]
redis_get_file_id_by_path(fset, path) == IdsOf(redis_path_query(fset, path))

\* get_indexed_file_by_id of the Redis backend: the raw vector is never returned
redis_get_indexed_file_by_id(fset, id) ==
    IF \E r \in fset : r.id = id
    THEN [(CHOOSE r \in fset : r.id = id) EXCEPT !.vector = NoVec]
    ELSE NoRec

\* get_indexed_file_by_path: the records a lookup of `path` may return
get_indexed_file_by_path(b, fset, path) ==
    IF b = "redis"
    THEN IF redis_get_file_id_by_path(fset, path) = {} THEN {NoRec}
         ELSE {redis_get_indexed_file_by_id(fset, id) :
                  id \in redis_get_file_id_by_path(fset, path)}
    ELSE IF \E r \in fset : r.path = path
         THEN {r \in fset : r.path = path}
         ELSE {NoRec}

\* find_by_hash: the first row with the digest, or none
find_by_hash(b, fset, h) ==
    IF \E r \in fset : r.file_hash = h
    THEN {IF b = "redis" THEN [r EXCEPT !.vector = NoVec] ELSE r :
             r \in {x \in fset : x.file_hash = h}}
    ELSE {NoRec}

\* add_or_update_indexed_file of the SQLite backend (and the ORM code of
\* _index_single_file): update the row of `path` in place, else insert
sqlite_add_or_update(fset, path, h, v, m, t) ==
    IF \E r \in fset : r.path = path
    THEN {IF r.path = path
          THEN [r EXCEPT !.file_hash = h, !.vector = v, !.last_modified = m,
                         !.indexed_at = t]
          ELSE r : r \in fset}
    ELSE fset \cup {[id |-> sqlite_next_id(fset), path |-> path, file_hash |-> h,
                     vector |-> v, last_modified |-> m, indexed_at |-> t]}

\* add_or_update_indexed_file of the Redis backend with file_id already chosen:
\* JSON.SET file:<file_id> $ doc replaces the whole document under that key
redis_add_or_update(fset, file_id, path, h, v, m, t) ==
    {r \in fset : r.id # file_id}
        \cup {[id |-> file_id, path |-> path, file_hash |-> h, vector |-> v,
               last_modified |-> m, indexed_at |-> t]}

\* the ids add_or_update_indexed_file may write to: existing_id or a fresh uuid
upsert_ids(b, fset, path, fresh) ==
    IF b = "redis"
    THEN IF redis_get_file_id_by_path(fset, path) = {} THEN {fresh}
         ELSE redis_get_file_id_by_path(fset, path)
    ELSE {0}

add_or_update_indexed_file(b, fset, file_id, path, h, v, m, t) ==
    IF b = "redis" THEN redis_add_or_update(fset, file_id, path, h, v, m, t)
    ELSE sqlite_add_or_update(fset, path, h, v, m, t)

delete_indexed_file(fset, id) == {r \in fset : r.id # id}

-----------------------------------------------------------------------------
(* Indexing one file *)

\* the same test without the comparison of the modification times
skip_ignoring_mtime(p, f, existing) ==
    /\ existing # NoRec
    /\ ~(is_text_file(p, f) /\ existing.vector = NoVec)

\* the test "already indexed and not modified" of both per-file functions
skip_unmodified(p, f, existing) ==
    /\ existing # NoRec
    /\ existing.last_modified = f.mtime
    /\ ~(is_text_file(p, f) /\ existing.vector = NoVec)

\* _index_single_file_with_storage(filepath, storage): `existing` is what
\* storage.get_indexed_file_by_path returned, `file_id` the id the upsert writes to
index_single_file_with_storage(b, fset, p, f, existing, file_id, t) ==
    IF f = NoFile THEN [out |-> "oserror", files |-> fset]
    ELSE IF skip_unmodified(p, f, existing) THEN [out |-> "skipped", files |-> fset]
    ELSE IF ~f.readable THEN [out |-> "denied", files |-> fset]
    ELSE [out |-> "indexed",
          files |-> add_or_update_indexed_file(b, fset, file_id, p, sha256(f.content),
                        IF is_text_file(p, f) THEN compute_vector(p, f) ELSE NoVec,
                        f.mtime, t)]

\* _index_single_file(filepath, db): the same steps on the ORM session
index_single_file(fset, p, f, existing, t) ==
    IF f = NoFile THEN [out |-> "oserror", files |-> fset]
    ELSE IF skip_unmodified(p, f, existing) THEN [out |-> "skipped", files |-> fset]
    ELSE IF ~f.readable THEN [out |-> "denied", files |-> fset]
    ELSE [out |-> "indexed",
          files |-> sqlite_add_or_update(fset, p, sha256(f.content),
                        IF is_text_file(p, f) THEN compute_vector(p, f) ELSE NoVec,
                        f.mtime, t)]

\* one call on file p: the store raises when it is down (any other exception of
\* the per-file code), else the per-file function of the configured backend runs
index_file_result(b, up, fset, p, f, existing, file_id, t) ==
    IF f # NoFile /\ ~up THEN [out |-> "failed", files |-> fset]
    ELSE IF b = "redis"
    THEN index_single_file_with_storage(b, fset, p, f, existing, file_id, t)
    ELSE index_single_file(fset, p, f, existing, t)

-----------------------------------------------------------------------------
(* The progress store *)

IndexId == "index-1"
ScanId == "scan-1"
TaskIds == {IndexId, ScanId}

\* TaskProgress(task_id, task_type)
TaskProgress(task_type) ==
    [task_type |-> task_type, status |-> "pending", total_files |-> 0,
     files_processed |-> 0, matches_found |-> 0, files_indexed |-> 0,
     current_file |-> "", completed_at |-> 0, error_message |-> ""]

\* create_task
create_task(t, id, task_type) == [t EXCEPT ![id] = TaskProgress(task_type)]

\* update_task(task_id, **kwargs): a keyword that is no attribute of TaskProgress
\* is dropped by the hasattr test
update_task(t, id, kwargs) ==
    IF t[id] = NoTask THEN t
    ELSE [t EXCEPT ![id] =
             [k \in DOMAIN t[id] |-> IF k \in DOMAIN kwargs THEN kwargs[k] ELSE t[id][k]]]

\* an update that is lost
update_dropped(t, id, kwargs) == t

\* update_scan is an alias of update_task
update_scan(t, id, kwargs) == update_task(t, id, kwargs)

is_cancelled(id) == id \in cancelledSet

\* TaskProgress.to_dict: files_scanned is an alias of files_processed
to_dict(tp) ==
    [status |-> tp.status, total_files |-> tp.total_files,
     files_processed |-> tp.files_processed, files_scanned |-> tp.files_processed,
     matches_found |-> tp.matches_found, files_indexed |-> tp.files_indexed]

-----------------------------------------------------------------------------
(* Initial values shared by the specifications *)

NoOp == [op |-> "none"]

IdlePipeline == [pc |-> "idle"]

InitIdle ==
    /\ storeUp = TRUE
    /\ results = {}
    /\ nextId = 1
    /\ now = 1
    /\ tasks = [id \in TaskIds |-> NoTask]
    /\ cancelledSet = {}
    /\ ix = IdlePipeline
    /\ sc = IdlePipeline
    /\ pool = IdlePipeline
    /\ cn = IdlePipeline

-----------------------------------------------------------------------------
(* The store interface called directly: upserts and deletes *)

StorePaths == {PathA, PathUpperA, PathB}
StoreContents == {"text1", "text2"}

StoreInit ==
    /\ InitIdle
    /\ threading = FALSE
    /\ patterns = {}
    /\ backend \in {"sqlite", "redis"}
    /\ fs = [p \in Paths |-> NoFile]
    /\ files = {}
    /\ hist = [last |-> NoOp, upserted |-> [p \in Paths |-> NoRec]]

\* storage.add_or_update_indexed_file(path, filename, file_hash, vector, last_modified)
StoreUpsert(p, c, v, m) ==
    /\ now < MaxClock
    /\ \E id \in upsert_ids(backend, files, p, nextId) :
          files' = add_or_update_indexed_file(backend, files, id, p, sha256(c), v, m, now)
    /\ nextId' = nextId + 1
    /\ now' = now + 1
    /\ hist' = [hist EXCEPT !.last = [op |-> "upsert", path |-> p],
                            !.upserted[p] = [file_hash |-> sha256(c), vector |-> v,
                                             last_modified |-> m]]
    /\ UNCHANGED <<backend, threading, storeUp, patterns, fs, results, tasks,
                   cancelledSet, ix, sc, pool, cn>>

\* storage.delete_indexed_file(file_id)
StoreDelete(r) ==
    /\ files' = delete_indexed_file(files, r.id)
    /\ hist' = [hist EXCEPT !.last = [op |-> "delete", path |-> r.path],
                            !.upserted[r.path] = NoRec]
    /\ UNCHANGED <<backend, threading, storeUp, patterns, fs, results, nextId, now,
                   tasks, cancelledSet, ix, sc, pool, cn>>

\* storage.delete_all_indexed_files(): the Redis backend deletes the file:* and the
\* result:* keys, the SQLite backend deletes the rows of indexed_files only; both
\* return the number of indexed files counted before the delete
delete_all_indexed_files(b, fset, rset) ==
    [files |-> {}, results |-> IF b = "redis" THEN {} ELSE rset,
     count |-> Cardinality(fset)]

StoreDeleteAll ==
    /\ files' = delete_all_indexed_files(backend, files, results).files
    /\ results' = delete_all_indexed_files(backend, files, results).results
    /\ hist' = [hist EXCEPT
                  !.last = [op |-> "delete_all", path |-> "",
                            count |-> delete_all_indexed_files(backend, files, results).count,
                            existed |-> Cardinality(files)],
                  !.upserted = [p \in Paths |-> NoRec]]
    /\ UNCHANGED <<backend, threading, storeUp, patterns, fs, nextId, now, tasks,
                   cancelledSet, ix, sc, pool, cn>>

\* the results a scan may store: file p matched the indexed file r
StoreResults == {[scan_id |-> ScanId, file_path |-> p, match_type |-> "exact",
                  score |-> 100, matched_file_id |-> id] : p \in {PathA}, id \in 1..2}

\* storage.add_scan_result(scan_id, file_path, match_type, score, matched_file_id)
StoreAddResult(res) ==
    /\ res \notin results
    /\ results' = results \cup {res}
    /\ hist' = [hist EXCEPT !.last = [op |-> "add_result", path |-> res.file_path]]
    /\ UNCHANGED <<backend, threading, storeUp, patterns, fs, files, nextId, now,
                   tasks, cancelledSet, ix, sc, pool, cn>>

StoreNext ==
    \/ \E p \in StorePaths, c \in StoreContents, m \in Mtimes :
          \E v \in {NoVec, <<"vec", c>>} : StoreUpsert(p, c, v, m)
    \/ \E r \in files : StoreDelete(r)
    \/ StoreDeleteAll
    \/ \E res \in StoreResults : StoreAddResult(res)

SpecStore == StoreInit /\ [][StoreNext]_vars

\* C38: an upsert of path p changes only the record of p: every indexed file
\* with another path keeps its id, digest, vector, mtime and indexed_at, no
\* scan result changes, and when p had a record its id is kept
C38_UpsertTouchesOnlyItsPath ==
    [][(hist'.last # hist.last /\ hist'.last.op = "upsert") =>
          /\ \A r \in files : r.path # hist'.last.path => r \in files'
          /\ results' = results
          /\ \A r \in files : r.path = hist'.last.path =>
                 \E q \in files' : q.path = r.path /\ q.id = r.id]_vars

\* C10: upsert is path-keyed: the store holds at most one IndexedFile per path, and
\* get_by_path(p) returns the digest, vector and mtime of the most recent upsert
\* for p. Checked under SpecStore.
C10_UpsertPathKeyed ==
    \A p \in Paths :
        /\ Cardinality({r \in files : r.path = p}) <= 1
        /\ hist.upserted[p] # NoRec =>
              \A r \in get_indexed_file_by_path(backend, files, p) :
                  /\ r # NoRec
                  /\ r.file_hash = hist.upserted[p].file_hash
                  /\ r.vector = hist.upserted[p].vector
                  /\ r.last_modified = hist.upserted[p].last_modified

\* C12: delete_all() of the store interface, on either backend, removes every
\* IndexedFile and purges every ScanResult, and returns the number of indexed files
\* that existed. Checked under SpecStore.
C12_DeleteAllPurgesResults ==
    hist.last.op = "delete_all" =>
        /\ files = {}
        /\ results = {}
        /\ hist.last.count = hist.last.existed

-----------------------------------------------------------------------------
(* Re-indexing: index_directory visits a file, the tree changes in between *)

ReindexPaths == {PathA, PathUpperA, PathB}

\* what the files of the tree may hold
ContentsAt(p) ==
    CASE p = PathA -> {"text1", "text2", "short"}
      [] p = PathUpperA -> {"text1"}
      [] OTHER -> {"bin1", "bin2"}

ReindexInit ==
    /\ InitIdle
    /\ threading = FALSE
    /\ patterns = {}
    /\ backend \in {"sqlite", "redis"}
    /\ fs = [p \in Paths |->
                CASE p = PathA -> [content |-> "text1", mtime |-> 1, readable |-> TRUE]
                  [] p = PathB -> [content |-> "bin1", mtime |-> 1, readable |-> TRUE]
                  [] OTHER -> NoFile]
    /\ files = {}
    /\ hist = [last |-> NoOp, indexedAs |-> [p \in Paths |-> NoFile], changes |-> 0]

\* a program outside the engine writes, touches or creates file p
FsWrite(p, c, m) ==
    /\ hist.changes < MaxFsChanges
    /\ fs[p] # [content |-> c, mtime |-> m, readable |-> TRUE]
    /\ fs' = [fs EXCEPT ![p] = [content |-> c, mtime |-> m, readable |-> TRUE]]
    /\ hist' = [hist EXCEPT !.last = NoOp, !.changes = @ + 1]
    /\ UNCHANGED <<backend, threading, storeUp, patterns, files, results, nextId, now,
                   tasks, cancelledSet, ix, sc, pool, cn>>

\* what the run left in the store for file p
stored_digest_is_current(b, fset, p, f) ==
    \A r \in get_indexed_file_by_path(b, fset, p) :
        r # NoRec /\ r.file_hash = sha256(f.content)

\* chmod: file p becomes unreadable, or readable again
FsChmod(p) ==
    /\ hist.changes < MaxFsChanges
    /\ fs[p] # NoFile
    /\ fs' = [fs EXCEPT ![p].readable = ~@]
    /\ hist' = [hist EXCEPT !.last = NoOp, !.changes = @ + 1]
    /\ UNCHANGED <<backend, threading, storeUp, patterns, files, results, nextId, now,
                   tasks, cancelledSet, ix, sc, pool, cn>>

\* one iteration of index_directory's loop, on file p
ReindexFile(p) ==
    /\ fs[p] # NoFile
    /\ ~should_ignore(basename(p))
    /\ now < MaxClock
    /\ \E ex \in get_indexed_file_by_path(backend, files, p) :
       \E id \in upsert_ids(backend, files, p, nextId) :
          LET res == index_file_result(backend, storeUp, files, p, fs[p], ex, id, now)
          IN  /\ files' = res.files
              /\ hist' = [hist EXCEPT
                    !.last = [op |-> "index", path |-> p, out |-> res.out,
                              known |-> hist.indexedAs[p] # NoFile,
                              unchanged |->
                                  /\ hist.indexedAs[p] # NoFile
                                  /\ hist.indexedAs[p].content = fs[p].content
                                  /\ hist.indexedAs[p].mtime = fs[p].mtime,
                              readable |-> fs[p].readable,
                              found |-> ex # NoRec,
                              mtime_differs |->
                                  ex # NoRec /\ ex.last_modified # fs[p].mtime,
                              text_without_vector |->
                                  ex # NoRec /\ is_text_file(p, fs[p]) /\ ex.vector = NoVec,
                              wrote |-> res.files # files,
                              current |->
                                  stored_digest_is_current(backend, res.files, p, fs[p])],
                    !.indexedAs[p] = IF res.out \in {"indexed", "skipped"}
                                     THEN fs[p] ELSE @]
    /\ nextId' = nextId + 1
    /\ now' = now + 1
    /\ UNCHANGED <<backend, threading, storeUp, patterns, fs, results, tasks,
                   cancelledSet, ix, sc, pool, cn>>

ReindexNext ==
    \/ \E p \in ReindexPaths, m \in Mtimes : \E c \in ContentsAt(p) : FsWrite(p, c, m)
    \/ \E p \in ReindexPaths : FsChmod(p)
    \/ \E p \in ReindexPaths : ReindexFile(p)

SpecReindex == ReindexInit /\ [][ReindexNext]_vars

Reindexed == hist.last.op = "index" /\ hist.last.out \in {"indexed", "skipped"}

\* C8: re-running the indexer on a file whose bytes and mtime are unchanged since
\* it was last indexed is a no-op (no store write, record and indexed_at unchanged),
\* for every file and on both backends. Checked under SpecReindex.
C8_UnchangedFileIsNoOp ==
    (Reindexed /\ hist.last.unchanged) => ~hist.last.wrote

\* C9 as claimed: a change of the bytes or of the mtime of an already indexed file
\* forces a rewrite on the next index run, after which the stored digest is the
\* digest of the current bytes. Checked under SpecReindex.
C9_AnyChangeForcesRewrite ==
    (Reindexed /\ hist.last.known /\ ~hist.last.unchanged)
        => (hist.last.wrote /\ hist.last.current)

\* C9 as amended: a readable file whose stored record carries another mtime is
\* re-hashed and upserted, and the stored digest is then the digest of its current
\* bytes; with an identical mtime the file is skipped (unless it is textual and the
\* record shows no vector), whatever its bytes are now.
C9_MtimeChangeForcesRewrite ==
    hist.last.op = "index" =>
        /\ (hist.last.mtime_differs /\ hist.last.readable)
              => (hist.last.out = "indexed" /\ hist.last.wrote /\ hist.last.current)
        /\ (hist.last.found /\ ~hist.last.mtime_differs /\ ~hist.last.text_without_vector)
              => (hist.last.out = "skipped" /\ ~hist.last.wrote)

C9_Witness ==
    /\ hist.last.op = "index"
    /\ hist.last.known
    /\ hist.last.mtime_differs
    /\ hist.last.out = "indexed"
    /\ hist.last.current

-----------------------------------------------------------------------------
(* The index pipeline: POST /index, index_directory_with_id and its two        *)
(* implementations, and POST /index/{index_id}/stop running beside them        *)

\* os.walk(directory): the files of the tree, in listing order
RECURSIVE walk_from(_, _)
walk_from(tree, i) ==
    IF i > Len(WalkOrder) THEN <<>>
    ELSE IF tree[WalkOrder[i]] # NoFile
         THEN <<WalkOrder[i]>> \o walk_from(tree, i + 1)
         ELSE walk_from(tree, i + 1)

os_walk(tree) == walk_from(tree, 1)

\* a count that leaves out the files that are not textual
count_text_files(tree) ==
    Len(SelectSeq(os_walk(tree),
                  LAMBDA p : ~should_ignore(basename(p)) /\ is_text_file(p, tree[p])))

\* _collect_files(directory): the files that are not ignored
collect_files(tree) == SelectSeq(os_walk(tree), LAMBDA p : ~should_ignore(basename(p)))

\* count_files(directory): the number of files that are not ignored
count_files(tree) == Len(SelectSeq(os_walk(tree), LAMBDA p : ~should_ignore(basename(p))))

\* the IndexOperation rows live in the SQLite database whatever the backend is
sqlite_up == backend = "sqlite" => storeUp

\* a directory without entries
EmptyDirectory == [p \in Paths |-> NoFile]

\* the pipeline thread exists and has not returned or died
Running(pl) == pl.pc \notin {"idle", "done", "crashed"}

TerminalStatus == {"completed", "cancelled", "error"}

NoFuture == [st |-> "none"]

\* the handles a pipeline and its workers hold: SessionLocal() and
\* get_storage_backend() add one, close() of a handle takes it away
open_handle(open, h) == open \cup {h}

keep_open(open, h) == open

close(open, h) == open \ {h}

\* `with`-like scoping: a handle opened and closed inside one step
scoped(open, h) == close(open_handle(open, h), h)

IndexInit ==
    /\ InitIdle
    /\ backend \in {"sqlite", "redis"}
    /\ threading \in BOOLEAN
    /\ patterns = Patterns
    /\ \/ \E r \in BOOLEAN :
             fs = [p \in Paths |->
                     CASE p = PathA -> [content |-> "text1", mtime |-> 1, readable |-> TRUE]
                       [] p = PathB -> [content |-> "bin1", mtime |-> 1, readable |-> r]
                       [] p = PathLog -> [content |-> "short", mtime |-> 1, readable |-> TRUE]
                       [] OTHER -> NoFile]
       \/ fs = EmptyDirectory
    /\ files \in {{}, {[id |-> 1, path |-> PathA, file_hash |-> sha256("text1"),
                        vector |-> <<"vec", "text1">>, last_modified |-> 1,
                        indexed_at |-> 1]}}
    /\ hist = [outages |-> 0, grown |-> FALSE, absorbed |-> 0, open |-> {},
               upserted |-> 0, worked |-> 0]

\* POST /index: create_index(index_id), then the run is handed to a worker thread
index_path ==
    /\ ix.pc = "idle"
    /\ tasks' = create_task(tasks, IndexId, "index")
    /\ ix' = [pc |-> "scheduled", total_files |-> 0, files_processed |-> 0,
              files_indexed |-> 0, cancelled |-> FALSE, todo |-> <<>>, current |-> ""]
    /\ UNCHANGED <<backend, threading, storeUp, patterns, fs, files, results, nextId,
                   now, cancelledSet, sc, pool, cn, hist>>

\* run_index_with_id opens db_session and closes it in its finally;
\* index_directory_with_id: commit the IndexOperation row (an exception of the
\* commit leaves the thread), then the first statement of either implementation
index_directory_with_id ==
    /\ ix.pc = "scheduled"
    /\ IF ~sqlite_up
       THEN /\ ix' = [ix EXCEPT !.pc = "crashed"]
            /\ UNCHANGED tasks
       ELSE /\ ix' = [ix EXCEPT !.pc = "count"]
            /\ tasks' = update_task(tasks, IndexId, [status |-> "counting"])
    /\ hist' = [hist EXCEPT !.open = IF ~sqlite_up THEN scoped(@, "db_session")
                                     ELSE open_handle(@, "db_session")]
    /\ UNCHANGED <<backend, threading, storeUp, patterns, fs, files, results, nextId,
                   now, cancelledSet, sc, pool, cn>>

\* _index_directory_sequential up to the loop: count_files, status "processing",
\* and get_storage_backend() of the Redis backend, which raises outside any try
SeqCount ==
    /\ ix.pc = "count"
    /\ ~threading
    /\ tasks' = update_task(tasks, IndexId,
                    [status |-> "processing", total_files |-> count_files(fs)])
    /\ ix' = [ix EXCEPT !.total_files = count_files(fs),
                        !.pc = IF backend = "redis" /\ ~storeUp
                               THEN "crashed" ELSE "listdir"]
    /\ hist' = [hist EXCEPT !.open =
                   IF backend # "redis" THEN @
                   ELSE IF ~storeUp THEN close(@, "db_session")
                   ELSE open_handle(@, "storage")]
    /\ UNCHANGED <<backend, threading, storeUp, patterns, fs, files, results, nextId,
                   now, cancelledSet, sc, pool, cn>>

\* the second os.walk lists the directory
SeqListdir ==
    /\ ix.pc = "listdir"
    /\ ix' = [ix EXCEPT !.todo = os_walk(fs), !.pc = "poll"]
    /\ UNCHANGED <<backend, threading, storeUp, patterns, fs, files, results, nextId,
                   now, tasks, cancelledSet, sc, pool, cn, hist>>

\* the head of one iteration: should_ignore, is_cancelled, files_processed += 1;
\* leaving the loop runs the finally that closes the Redis handle
SeqPoll ==
    /\ ix.pc = "poll"
    /\ IF ix.todo = <<>>
       THEN /\ ix' = [ix EXCEPT !.pc = "final"]
            /\ UNCHANGED tasks
       ELSE IF should_ignore(basename(Head(ix.todo)))
       THEN /\ ix' = [ix EXCEPT !.todo = Tail(@)]
            /\ UNCHANGED tasks
       ELSE IF is_cancelled(IndexId)
       THEN /\ ix' = [ix EXCEPT !.cancelled = TRUE, !.pc = "final"]
            /\ UNCHANGED tasks
       ELSE /\ ix' = [ix EXCEPT !.files_processed = @ + 1, !.current = Head(ix.todo),
                                !.todo = Tail(@), !.pc = "work"]
            /\ tasks' = update_task(tasks, IndexId,
                            [files_processed |-> ix.files_processed + 1,
                             current_file |-> Head(ix.todo)])
    /\ hist' = [hist EXCEPT !.open = IF ix'.pc = "final" /\ backend = "redis"
                                     THEN close(@, "storage") ELSE @]
    /\ UNCHANGED <<backend, threading, storeUp, patterns, fs, files, results, nextId,
                   now, cancelledSet, sc, pool, cn>>

\* the try block of the iteration: index the file, publish files_indexed; every
\* exception is caught
SeqWork ==
    /\ ix.pc = "work"
    /\ \E ex \in get_indexed_file_by_path(backend, files, ix.current) :
       \E id \in upsert_ids(backend, files, ix.current, nextId) :
          LET res == index_file_result(backend, storeUp, files, ix.current,
                                       fs[ix.current], ex, id, now)
          IN  /\ files' = res.files
              /\ ix' = [ix EXCEPT !.pc = "poll",
                                  !.files_indexed = IF res.out = "indexed" THEN @ + 1 ELSE @]
              /\ tasks' = IF res.out = "indexed"
                          THEN update_task(tasks, IndexId,
                                   [files_indexed |-> ix.files_indexed + 1])
                          ELSE tasks
              /\ hist' = [hist EXCEPT !.absorbed =
                             IF res.out \in {"denied", "oserror", "failed"}
                             THEN @ + 1 ELSE @,
                                      !.upserted = IF res.out = "indexed" THEN @ + 1 ELSE @,
                                      !.worked = @ + 1]
    /\ nextId' = nextId + 1
    /\ UNCHANGED <<backend, threading, storeUp, patterns, fs, results, now,
                   cancelledSet, sc, pool, cn>>


\* _index_directory_parallel up to the executor: _collect_files, status "processing"
ParCollect ==
    /\ ix.pc = "count"
    /\ threading
    /\ tasks' = update_task(tasks, IndexId,
                    [status |-> "processing", total_files |-> Len(collect_files(fs))])
    /\ ix' = [ix EXCEPT !.total_files = Len(collect_files(fs)),
                        !.todo = collect_files(fs), !.pc = "submit"]
    /\ UNCHANGED <<backend, threading, storeUp, patterns, fs, files, results, nextId,
                   now, cancelledSet, sc, pool, cn, hist>>

\* executor.submit(_index_file_worker, filepath, ...) for every collected file
ParSubmit ==
    /\ ix.pc = "submit"
    /\ pool' = [p \in Paths |->
                  IF \E i \in 1..Len(ix.todo) : ix.todo[i] = p
                  THEN [st |-> "pending"] ELSE NoFuture]
    /\ ix' = [ix EXCEPT !.todo = <<>>, !.pc = "gather"]
    /\ UNCHANGED <<backend, threading, storeUp, patterns, fs, files, results, nextId,
                   now, tasks, cancelledSet, sc, cn, hist>>

RunningFutures == {p \in Paths : pool[p].st = "running"}

\* a worker thread takes a pending future: _index_file_worker opens its own
\* handle (thread_db or storage), stats the file and looks its record up
WorkerStart(p) ==
    /\ threading
    /\ ix.pc \in {"gather", "shutdown", "final", "clear", "done"}
    /\ pool[p].st = "pending"
    /\ Cardinality(RunningFutures) < MaxWorkers
    /\ \E ex \in get_indexed_file_by_path(backend, files, p) :
          pool' = [pool EXCEPT ![p] = [st |-> "running", existing |-> ex]]
    /\ hist' = [hist EXCEPT !.open = open_handle(@, p)]
    /\ UNCHANGED <<backend, threading, storeUp, patterns, fs, files, results, nextId,
                   now, tasks, cancelledSet, ix, sc, cn>>

\* the worker hashes, vectorises and upserts; _index_file_worker catches every
\* exception and returns (filepath, was_indexed, error); its finally closes the
\* handle
WorkerFinish(p) ==
    /\ threading
    /\ ix.pc \in {"gather", "shutdown", "final", "clear", "done"}
    /\ pool[p].st = "running"
    /\ \E id \in upsert_ids(backend, files, p, nextId) :
          LET res == index_file_result(backend, storeUp, files, p, fs[p],
                                       pool[p].existing, id, now)
          IN  /\ files' = res.files
              /\ pool' = [pool EXCEPT ![p] = [st |-> "done", out |-> res.out]]
              /\ hist' = [hist EXCEPT !.absorbed =
                             IF res.out \in {"denied", "oserror", "failed"}
                             THEN @ + 1 ELSE @,
                                      !.open = close(@, p),
                                      !.upserted = IF res.out = "indexed" THEN @ + 1 ELSE @,
                                      !.worked = @ + 1]
    /\ nextId' = nextId + 1
    /\ UNCHANGED <<backend, threading, storeUp, patterns, fs, results, now, tasks,
                   cancelledSet, ix, sc, cn>>

\* update_progress(filepath, was_indexed, error), under progress_lock
update_progress(t, loc, p, out) ==
    update_task(t, IndexId,
        [files_processed |-> loc.files_processed + 1,
         files_indexed |-> IF out = "indexed" THEN loc.files_indexed + 1
                           ELSE loc.files_indexed,
         current_file |-> p])

\* one iteration of `for future in as_completed(futures)`: is_cancelled first
\* (cancel every future and leave the loop), else the result is published
ParGather ==
    /\ ix.pc = "gather"
    /\ \/ /\ \A p \in Paths : pool[p].st \in {"none", "yielded"}
          /\ ix' = [ix EXCEPT !.pc = "shutdown"]
          /\ UNCHANGED <<tasks, pool>>
       \/ \E p \in Paths :
             /\ pool[p].st = "done"
             /\ IF is_cancelled(IndexId)
                THEN /\ ix' = [ix EXCEPT !.cancelled = TRUE, !.pc = "shutdown"]
                     /\ pool' = [q \in Paths |->
                                   IF pool[q].st = "pending" THEN [st |-> "cancelled"]
                                   ELSE pool[q]]
                     /\ UNCHANGED tasks
                ELSE /\ tasks' = update_progress(tasks, ix, p, pool[p].out)
                     /\ ix' = [ix EXCEPT
                                 !.files_processed = @ + 1,
                                 !.files_indexed = IF pool[p].out = "indexed"
                                                   THEN @ + 1 ELSE @,
                                 !.current = p]
                     /\ pool' = [pool EXCEPT ![p].st = "yielded"]
    /\ UNCHANGED <<backend, threading, storeUp, patterns, fs, files, results, nextId,
                   now, cancelledSet, sc, cn, hist>>

\* an executor left without waiting
executor_abandoned(futures) == TRUE

\* ThreadPoolExecutor.__exit__: shutdown(wait=True) returns when no future is
\* running or pending
executor_drained(futures) ==
    \A p \in Paths : futures[p].st \notin {"pending", "running"}

\* leaving `with ThreadPoolExecutor(...)`: shutdown(wait=True) returns when no
\* future is running or pending
ParShutdown ==
    /\ ix.pc = "shutdown"
    /\ executor_drained(pool)
    /\ ix' = [ix EXCEPT !.pc = "final"]
    /\ UNCHANGED <<backend, threading, storeUp, patterns, fs, files, results, nextId,
                   now, tasks, cancelledSet, sc, pool, cn, hist>>

\* "Determine final status" and the final update_task of either implementation
IndexFinal ==
    /\ ix.pc = "final"
    /\ tasks' = update_task(tasks, IndexId,
                    [status |-> IF ix.cancelled THEN "cancelled" ELSE "completed",
                     completed_at |-> now, current_file |-> ""])
    /\ ix' = [ix EXCEPT !.pc = "clear"]
    /\ UNCHANGED <<backend, threading, storeUp, patterns, fs, files, results, nextId,
                   now, cancelledSet, sc, pool, cn, hist>>

\* progress_store.clear_cancelled(index_id); the IndexOperation row is updated
\* through update_db (opened, closed in a finally) and the thread returns
\* through the finally of run_index_with_id
IndexClear ==
    /\ ix.pc = "clear"
    /\ cancelledSet' = cancelledSet \ {IndexId}
    /\ ix' = [ix EXCEPT !.pc = "done"]
    /\ hist' = [hist EXCEPT !.open = close(scoped(@, "update_db"), "db_session")]
    /\ UNCHANGED <<backend, threading, storeUp, patterns, fs, files, results, nextId,
                   now, tasks, sc, pool, cn>>


\* POST /index/{index_id}/stop, first half: get_task, 404 without a task, 400 when
\* the status read is terminal. The handler runs on the event loop while the
\* pipeline runs on its worker thread. The task type is not looked at.
stop_indexing(id) ==
    /\ cn.pc = "idle"
    /\ tasks[id] # NoTask
    /\ cn' = [pc |-> IF tasks[id].status \in TerminalStatus THEN "rejected" ELSE "checked",
              seen |-> tasks[id].status]
    /\ UNCHANGED <<backend, threading, storeUp, patterns, fs, files, results, nextId,
                   now, tasks, cancelledSet, ix, sc, pool, hist>>

\* cancel_task, first statement: self._cancelled.add(task_id)
cancel_task_add(id) ==
    /\ cn.pc = "checked"
    /\ tasks[id] # NoTask
    /\ cancelledSet' = cancelledSet \cup {id}
    /\ cn' = [cn EXCEPT !.pc = "added"]
    /\ UNCHANGED <<backend, threading, storeUp, patterns, fs, files, results, nextId,
                   now, tasks, ix, sc, pool, hist>>

\* cancel_task, second statement: update_task(task_id, status="cancelling"); the
\* handler answers 200
cancel_task_update(id) ==
    /\ cn.pc = "added"
    /\ tasks' = update_task(tasks, id, [status |-> "cancelling"])
    /\ cn' = [cn EXCEPT !.pc = "accepted"]
    /\ UNCHANGED <<backend, threading, storeUp, patterns, fs, files, results, nextId,
                   now, cancelledSet, ix, sc, pool, hist>>

\* the store stops answering (connection refused, database locked) ...
StoreDown ==
    /\ storeUp
    /\ hist.outages < MaxOutages
    /\ storeUp' = FALSE
    /\ hist' = [hist EXCEPT !.outages = @ + 1]
    /\ UNCHANGED <<backend, threading, patterns, fs, files, results, nextId, now,
                   tasks, cancelledSet, ix, sc, pool, cn>>

\* ... and answers again
StoreBack ==
    /\ ~storeUp
    /\ storeUp' = TRUE
    /\ UNCHANGED <<backend, threading, patterns, fs, files, results, nextId, now,
                   tasks, cancelledSet, ix, sc, pool, cn, hist>>

\* a program outside the engine creates /d/A.txt while the index run is under way
FsCreate(p) ==
    /\ Running(ix)
    /\ fs[p] = NoFile
    /\ fs' = [fs EXCEPT ![p] = [content |-> "text2", mtime |-> 2, readable |-> TRUE]]
    /\ hist' = [hist EXCEPT !.grown = @ \/ ix.pc = "listdir"]
    /\ UNCHANGED <<backend, threading, storeUp, patterns, files, results, nextId, now,
                   tasks, cancelledSet, ix, sc, pool, cn>>

IndexNext ==
    \/ index_path
    \/ index_directory_with_id
    \/ SeqCount
    \/ SeqListdir
    \/ SeqPoll
    \/ SeqWork
    \/ ParCollect
    \/ ParSubmit
    \/ \E p \in Paths : WorkerStart(p)
    \/ \E p \in Paths : WorkerFinish(p)
    \/ ParGather
    \/ ParShutdown
    \/ IndexFinal
    \/ IndexClear
    \/ stop_indexing(IndexId)
    \/ cancel_task_add(IndexId)
    \/ cancel_task_update(IndexId)
    \/ (Running(ix) /\ StoreDown)
    \/ (Running(ix) /\ StoreBack)
    \/ FsCreate(PathUpperA)

SpecIndex == IndexInit /\ [][IndexNext]_vars


IndexTask == tasks[IndexId]

\* C1: a cancel called while the index pipeline is in status counting or processing
\* always ends in status `cancelled`: once the pipeline thread has returned and the
\* stop request has been answered, the status is "cancelled", never "completed" and
\* never "cancelling". Checked under SpecIndex.
C1_CancelEndsCancelled ==
    (ix.pc = "done" /\ cn.pc = "accepted" /\ cn.seen \in {"counting", "processing"})
        => IndexTask.status = "cancelled"

\* C3: terminal statuses are absorbing: no step of the progress store, of the
\* pipeline or of a stop request changes a status that is completed, cancelled or
\* error. Checked under SpecIndex.
C3_TerminalAbsorbing ==
    [][(IndexTask # NoTask /\ IndexTask.status \in TerminalStatus)
          => tasks'[IndexId].status = IndexTask.status]_vars

\* C4: a catastrophic error (the store handle cannot be obtained, a commit fails)
\* aborts the task with status `error` and a non-empty error_message: a task whose
\* pipeline thread has died is not left in a non-terminal status. Checked under
\* SpecIndex.
C4_CrashSetsError ==
    ix.pc = "crashed" => (IndexTask.status = "error" /\ IndexTask.error_message # "")

-----------------------------------------------------------------------------
(* The scan pipeline: POST /scan, scan_directory_with_id and its two           *)
(* implementations                                                             *)

\* SimilarityConfig defaults, in percent
similarity_threshold == 65
high_confidence_threshold == 85
exact_match_threshold == 98

\* cosine similarity of two contents, in percent: the two long texts of the model
\* are near-duplicates of each other
cosine_similarity(c1, c2) ==
    IF c1 = c2 THEN 100
    ELSE IF {c1, c2} = {"text1", "text2"} THEN 90
    ELSE 0

get_match_type_strict(score) ==
    IF score > exact_match_threshold THEN "exact"
    ELSE IF score > high_confidence_threshold THEN "high_confidence"
    ELSE "similarity"

get_match_type(score) ==
    IF score >= exact_match_threshold THEN "exact"
    ELSE IF score >= high_confidence_threshold THEN "high_confidence"
    ELSE "similarity"

NoMatch == [none |-> "match"]

\* get_indexed_files_with_vectors / the query IndexedFile.vector != None
get_indexed_files_with_vectors(fset) == {r \in fset : r.vector # NoVec}

\* compute_similarity_with_validation(...)[0]: the candidates at or above the
\* threshold with the highest score (the texts of the model are shorter than the
\* 200 characters from which the secondary check applies)
similarity_matches(c, matrix) ==
    LET cand == {r \in matrix : cosine_similarity(c, r.vector[2]) >= similarity_threshold}
        best == {r \in cand : \A q \in cand :
                    cosine_similarity(c, q.vector[2]) <= cosine_similarity(c, r.vector[2])}
    IN  {[match_type |-> get_match_type(cosine_similarity(c, r.vector[2])),
          score |-> cosine_similarity(c, r.vector[2]), matched_id |-> r.id] : r \in best}

\* a scan of one file that tries the similarity check before the digest
scan_similarity_first(b, up, fset, p, f, matrix) ==
    IF f = NoFile \/ ~f.readable \/ ~up THEN {[match |-> NoMatch, error |-> TRUE]}
    ELSE IF /\ matrix # {}
            /\ is_text_file(p, f)
            /\ min_content_length_reached(f.content)
            /\ similarity_matches(f.content, matrix) # {}
    THEN {[match |-> m, error |-> FALSE] : m \in similarity_matches(f.content, matrix)}
    ELSE {[match |-> NoMatch, error |-> FALSE]}

\* _scan_single_file and the loop bodies of the sequential scans: the outcomes of
\* scanning file f at path p. Every exception is caught and reported as an error.
scan_single_file(b, up, fset, p, f, matrix) ==
    IF f = NoFile \/ ~f.readable \/ ~up THEN {[match |-> NoMatch, error |-> TRUE]}
    ELSE IF find_by_hash(b, fset, sha256(f.content)) # {NoRec}
    THEN {[match |-> [match_type |-> "exact", score |-> 100, matched_id |-> r.id],
           error |-> FALSE] : r \in find_by_hash(b, fset, sha256(f.content))}
    ELSE IF /\ matrix # {}
            /\ is_text_file(p, f)
            /\ min_content_length_reached(f.content)
            /\ similarity_matches(f.content, matrix) # {}
    THEN {[match |-> m, error |-> FALSE] : m \in similarity_matches(f.content, matrix)}
    ELSE {[match |-> NoMatch, error |-> FALSE]}

\* a result filed under another scan
ScanResultElsewhere(p, m) ==
    [scan_id |-> IndexId, file_path |-> p, match_type |-> m.match_type,
     score |-> m.score, matched_file_id |-> m.matched_id]

\* ScanResult(scan_id, file_path, match_type, score, matched_file_id)
ScanResult(p, m) ==
    [scan_id |-> ScanId, file_path |-> p, match_type |-> m.match_type,
     score |-> m.score, matched_file_id |-> m.matched_id]

ScanTask == tasks[ScanId]

ScanInit ==
    /\ InitIdle
    /\ backend \in {"sqlite", "redis"}
    /\ threading \in BOOLEAN
    /\ patterns = Patterns
    /\ \/ \E c \in {"text1", "text2", "short"}, r \in BOOLEAN :
             fs = [p \in Paths |->
                     CASE p = PathA -> [content |-> c, mtime |-> 1, readable |-> TRUE]
                       [] p = PathB -> [content |-> "bin1", mtime |-> 1, readable |-> r]
                       [] p = PathLog -> [content |-> "short", mtime |-> 1, readable |-> TRUE]
                       [] OTHER -> NoFile]
       \/ fs = EmptyDirectory
    /\ files \in {{},
                  {[id |-> 1, path |-> PathA, file_hash |-> sha256("text1"),
                    vector |-> <<"vec", "text1">>, last_modified |-> 1, indexed_at |-> 1]},
                  {[id |-> 1, path |-> PathB, file_hash |-> sha256("bin1"),
                    vector |-> NoVec, last_modified |-> 1, indexed_at |-> 1]},
                  {[id |-> 1, path |-> PathLog, file_hash |-> sha256("short"),
                    vector |-> NoVec, last_modified |-> 1, indexed_at |-> 1]}}
    /\ hist = [outages |-> 0, failed |-> 0, cancelled_midway |-> FALSE,
               deletes |-> 0, unresolved |-> {}]

\* POST /scan: create_scan(scan_id), then the run is handed to a worker thread
scan_path ==
    /\ sc.pc = "idle"
    /\ tasks' = create_task(tasks, ScanId, "scan")
    /\ sc' = [pc |-> "scheduled", total_files |-> 0, files_scanned |-> 0,
              matches_found |-> 0, todo |-> <<>>, matrix |-> {}, scan_results |-> {}]
    /\ UNCHANGED <<backend, threading, storeUp, patterns, fs, files, results, nextId,
                   now, cancelledSet, ix, pool, cn, hist>>

\* scan_directory_with_id and the first statement of either implementation
scan_directory_with_id ==
    /\ sc.pc = "scheduled"
    /\ tasks' = update_scan(tasks, ScanId, [status |-> "counting"])
    /\ sc' = [sc EXCEPT !.pc = "count"]
    /\ UNCHANGED <<backend, threading, storeUp, patterns, fs, files, results, nextId,
                   now, cancelledSet, ix, pool, cn, hist>>

\* count_files (sequential) or _collect_files (parallel), then status "scanning"
ScanCount ==
    /\ sc.pc = "count"
    /\ tasks' = update_scan(tasks, ScanId,
                    [status |-> "scanning", total_files |-> count_files(fs)])
    /\ sc' = [sc EXCEPT !.total_files = count_files(fs),
                        !.todo = IF threading THEN collect_files(fs) ELSE <<>>,
                        !.pc = "load"]
    /\ UNCHANGED <<backend, threading, storeUp, patterns, fs, files, results, nextId,
                   now, cancelledSet, ix, pool, cn, hist>>

\* the indexed vectors are loaded (get_storage_backend or the query raises outside
\* any except clause when the store does not answer); the sequential scan then
\* lists the directory with os.walk and does not call should_ignore
ScanLoad ==
    /\ sc.pc = "load"
    /\ IF ~storeUp
       THEN sc' = [sc EXCEPT !.pc = "crashed"]
       ELSE sc' = [sc EXCEPT !.matrix = get_indexed_files_with_vectors(files),
                             !.todo = IF threading THEN @ ELSE os_walk(fs),
                             !.pc = IF threading THEN "submit" ELSE "loop"]
    /\ UNCHANGED <<backend, threading, storeUp, patterns, fs, files, results, nextId,
                   now, tasks, cancelledSet, ix, pool, cn, hist>>


\* one iteration of the sequential loop (_scan_directory_sequential on SQLite,
\* _scan_with_storage on Redis): files_scanned += 1, update_scan(files_scanned=...),
\* the match checks, and the result (added to the session, or written to Redis)
SeqScanFile ==
    /\ sc.pc = "loop"
    /\ sc.todo # <<>>
    /\ LET p == Head(sc.todo)
       IN  \E res \in scan_single_file(backend, storeUp, files, p, fs[p], sc.matrix) :
              LET progressed == update_scan(tasks, ScanId,
                                    [files_scanned |-> sc.files_scanned + 1,
                                     current_file |-> p])
              IN  /\ tasks' = IF res.match = NoMatch THEN progressed
                              ELSE update_scan(progressed, ScanId,
                                       [matches_found |-> sc.matches_found + 1])
                  /\ sc' = [sc EXCEPT
                              !.todo = Tail(@),
                              !.files_scanned = @ + 1,
                              !.matches_found = IF res.match = NoMatch THEN @ ELSE @ + 1,
                              !.scan_results =
                                  IF res.match = NoMatch \/ backend = "redis" THEN @
                                  ELSE @ \cup {ScanResult(p, res.match)}]
                  /\ results' = IF res.match # NoMatch /\ backend = "redis"
                                THEN results \cup {ScanResult(p, res.match)}
                                ELSE results
                  /\ hist' = [hist EXCEPT
                                !.failed = IF res.error THEN @ + 1 ELSE @,
                                !.cancelled_midway = @ \/ is_cancelled(ScanId)]
    /\ UNCHANGED <<backend, threading, storeUp, patterns, fs, files, nextId, now,
                   cancelledSet, ix, pool, cn>>

\* after the loop: db.commit() on SQLite (an exception leaves the thread), then
\* "Mark scan as completed"
SeqScanFinal ==
    /\ sc.pc = "loop"
    /\ sc.todo = <<>>
    /\ IF backend = "sqlite" /\ ~storeUp
       THEN /\ sc' = [sc EXCEPT !.pc = "crashed"]
            /\ UNCHANGED <<tasks, results>>
       ELSE /\ sc' = [sc EXCEPT !.pc = "done"]
            /\ results' = results \cup sc.scan_results
            /\ tasks' = update_scan(tasks, ScanId,
                            [status |-> "completed", completed_at |-> now,
                             current_file |-> ""])
    /\ UNCHANGED <<backend, threading, storeUp, patterns, fs, files, nextId, now,
                   cancelledSet, ix, pool, cn, hist>>

\* executor.submit(_scan_single_file, filepath, ...) for every collected file
ParScanSubmit ==
    /\ sc.pc = "submit"
    /\ pool' = [p \in Paths |->
                  IF \E i \in 1..Len(sc.todo) : sc.todo[i] = p
                  THEN [st |-> "pending"] ELSE NoFuture]
    /\ sc' = [sc EXCEPT !.todo = <<>>, !.pc = "gather"]
    /\ UNCHANGED <<backend, threading, storeUp, patterns, fs, files, results, nextId,
                   now, tasks, cancelledSet, ix, cn, hist>>

\* a worker thread takes a pending future
ScanWorkerStart(p) ==
    /\ sc.pc = "gather"
    /\ pool[p].st = "pending"
    /\ Cardinality(RunningFutures) < MaxWorkers
    /\ pool' = [pool EXCEPT ![p] = [st |-> "running"]]
    /\ hist' = [hist EXCEPT !.cancelled_midway = @ \/ is_cancelled(ScanId)]
    /\ UNCHANGED <<backend, threading, storeUp, patterns, fs, files, results, nextId,
                   now, tasks, cancelledSet, ix, sc, cn>>

\* _scan_single_file returns (filepath, match_result, error)
ScanWorkerFinish(p) ==
    /\ sc.pc = "gather"
    /\ pool[p].st = "running"
    /\ \E res \in scan_single_file(backend, storeUp, files, p, fs[p], sc.matrix) :
          /\ pool' = [pool EXCEPT ![p] = [st |-> "done", res |-> res]]
          /\ hist' = [hist EXCEPT !.failed = IF res.error THEN @ + 1 ELSE @]
    /\ UNCHANGED <<backend, threading, storeUp, patterns, fs, files, results, nextId,
                   now, tasks, cancelledSet, ix, sc, cn>>

\* process_result(filepath, match_result, error), under progress_lock
process_result(t, loc, p, res) ==
    IF res.match = NoMatch
    THEN update_scan(t, ScanId,
             [files_scanned |-> loc.files_scanned + 1, current_file |-> p])
    ELSE update_scan(update_scan(t, ScanId,
                         [files_scanned |-> loc.files_scanned + 1, current_file |-> p]),
                     ScanId, [matches_found |-> loc.matches_found + 1])

\* one iteration of `for future in as_completed(futures)` of the parallel scan
ParScanGather ==
    /\ sc.pc = "gather"
    /\ \E p \in Paths :
          /\ pool[p].st = "done"
          /\ tasks' = process_result(tasks, sc, p, pool[p].res)
          /\ sc' = [sc EXCEPT
                      !.files_scanned = @ + 1,
                      !.matches_found = IF pool[p].res.match = NoMatch THEN @ ELSE @ + 1,
                      !.scan_results = IF pool[p].res.match = NoMatch THEN @
                                       ELSE @ \cup {ScanResult(p, pool[p].res.match)}]
          /\ pool' = [pool EXCEPT ![p] = [st |-> "yielded"]]
    /\ UNCHANGED <<backend, threading, storeUp, patterns, fs, files, results, nextId,
                   now, cancelledSet, ix, cn, hist>>

\* after the executor: "Save all results to database" (get_storage_backend or
\* db.commit raises when the store does not answer), then "Mark scan as completed"
ParScanSave ==
    /\ sc.pc = "gather"
    /\ \A p \in Paths : pool[p].st \in {"none", "yielded"}
    /\ IF ~storeUp
       THEN /\ sc' = [sc EXCEPT !.pc = "crashed"]
            /\ UNCHANGED <<tasks, results, hist>>
       ELSE /\ sc' = [sc EXCEPT !.pc = "done"]
            /\ results' = results \cup sc.scan_results
            /\ hist' = [hist EXCEPT !.unresolved =
                           @ \cup {res \in sc.scan_results :
                                      ~\E r \in files : r.id = res.matched_file_id}]
            /\ tasks' = update_scan(tasks, ScanId,
                            [status |-> "completed", completed_at |-> now,
                             current_file |-> ""])
    /\ UNCHANGED <<backend, threading, storeUp, patterns, fs, files, nextId, now,
                   cancelledSet, ix, pool, cn>>

MaxDeletes == 1

\* DELETE /indexed-files while the scan is under way: the handler removes every
\* indexed file and every scan result of the configured backend
DeleteAllIndexedFiles ==
    /\ Running(sc)
    /\ hist.deletes < MaxDeletes
    /\ files' = {}
    /\ results' = {}
    /\ hist' = [hist EXCEPT !.deletes = @ + 1]
    /\ UNCHANGED <<backend, threading, storeUp, patterns, fs, nextId, now, tasks,
                   cancelledSet, ix, sc, pool, cn>>

ScanNext ==
    \/ scan_path
    \/ scan_directory_with_id
    \/ ScanCount
    \/ ScanLoad
    \/ SeqScanFile
    \/ SeqScanFinal
    \/ ParScanSubmit
    \/ \E p \in Paths : ScanWorkerStart(p)
    \/ \E p \in Paths : ScanWorkerFinish(p)
    \/ ParScanGather
    \/ ParScanSave
    \/ stop_indexing(ScanId)
    \/ cancel_task_add(ScanId)
    \/ cancel_task_update(ScanId)
    \/ (Running(sc) /\ StoreDown)
    \/ (Running(sc) /\ StoreBack)
    \/ DeleteAllIndexedFiles

SpecScan == ScanInit /\ [][ScanNext]_vars

\* C2: the scanner respects cancellation: when the cancel flag of the scan task
\* is set while files remain, the pipeline starts no further file and the task
\* ends in status `cancelled` rather than `completed`. Checked under SpecScan.
C2_ScanCancelEndsCancelled ==
    (sc.pc = "done" /\ cn.pc = "accepted" /\ hist.cancelled_midway)
        => ScanTask.status = "cancelled"

\* C5: a per-file error is absorbed: the file is still counted in files_processed,
\* the remaining files are processed and, absent cancellation, the task ends
\* `completed`. Checked under SpecScan for the scan pipelines.
C5_FileErrorsAbsorbed ==
    (sc.pc = "done" /\ cn.pc = "idle" /\ hist.failed > 0)
        => /\ ScanTask.status = "completed"
           /\ ScanTask.files_processed = sc.files_scanned
           /\ sc.files_scanned >= sc.total_files

\* C7: after the scanner has handled n files the task's files_processed, and the
\* files_scanned of its snapshot, equal n; at `completed` (the tree does not
\* change during a scan of SpecScan) files_processed equals total_files.
C7_ScanCountsProcessed ==
    ScanTask # NoTask =>
        /\ ScanTask.files_processed = sc.files_scanned
        /\ to_dict(ScanTask).files_scanned = sc.files_scanned
        /\ ScanTask.status = "completed"
              => ScanTask.files_processed = ScanTask.total_files

\* the scan results written or pending for the running scan
ScanResultsSoFar == results \cup (IF sc.pc = "idle" THEN {} ELSE sc.scan_results)

\* the digest of the file at p equals the digest of an indexed file
digest_indexed(p) ==
    /\ fs[p] # NoFile
    /\ \E r \in files : r.file_hash = sha256(fs[p].content)

C33_EmptyInputs ==
    (sc.pc = "done" /\ cn.pc = "idle") =>
        /\ fs = EmptyDirectory =>
               (ScanTask.total_files = 0 /\ ScanTask.status = "completed")
        /\ (files = {} /\ hist.deletes = 0) =>
               /\ results = {}
               /\ ScanTask.matches_found = 0
               /\ ScanTask.status = "completed"

C33_Witness ==
    /\ sc.pc = "done"
    /\ cn.pc = "idle"
    /\ files = {}
    /\ hist.deletes = 0
    /\ fs # EmptyDirectory
    /\ sc.files_scanned > 1
    /\ ScanTask.status = "completed"

\* the index run of an empty directory that stays empty and that nobody stops
C33_IndexEmptyDirectory ==
    (ix.pc = "done" /\ cn.pc = "idle" /\ fs = EmptyDirectory) =>
        (IndexTask.total_files = 0 /\ IndexTask.status = "completed")

\* the results a scan of file p may leave, by the match checks alone
file_outcomes(p) ==
    {IF res.match = NoMatch THEN {} ELSE {ScanResult(p, res.match)} :
        res \in scan_single_file(backend, TRUE, files, p, fs[p],
                                 get_indexed_files_with_vectors(files))}

\* C35: the sequential and the parallel scanner are equivalent: on the same
\* tree, index and configuration (with a non-empty ignore list) an undisturbed
\* scan of either kind ends with the results the inputs determine, one outcome
\* of the match checks for every file that is not ignored and nothing for an
\* ignored file, with total_files the number of those files and matches_found
\* the number of results
C35_ScannersEquivalent ==
    (sc.pc = "done" /\ cn.pc = "idle" /\ hist.outages = 0 /\ hist.deletes = 0) =>
        /\ \A p \in Paths :
              {r \in results : r.file_path = p} \in
                  (IF fs[p] # NoFile /\ ~should_ignore(basename(p))
                   THEN file_outcomes(p) ELSE {{}})
        /\ ScanTask.total_files = count_files(fs)
        /\ ScanTask.matches_found = Cardinality(results)

\* get_scan_results(scan_id): the results stored under the scan
results_for(id) == {r \in results : r.scan_id = id}

-----------------------------------------------------------------------------
(* Concurrent upserts: the workers of index runs that execute at the same time *)
(* each call add_or_update_indexed_file on a connection of their own           *)

MaxCallers == 2
Callers == 1..MaxCallers

\* the paths the callers upsert: distinct, and not equal up to letter case
UpsertPaths == {PathA, PathB}

IdleCaller == [st |-> "idle"]

\* the first statement of add_or_update_indexed_file: the id of the record of
\* `path` as the caller sees it (0: no record, the caller will insert)
upsert_lookup(b, fset, path, fresh) ==
    IF b = "redis" THEN upsert_ids(b, fset, path, fresh)
    ELSE IF \E r \in fset : r.path = path THEN {r.id : r \in {x \in fset : x.path = path}}
    ELSE {0}

\* the commit of the SQLite backend: the column `path` is unique, so the INSERT of a
\* path that has a row by now raises IntegrityError; the UPDATE goes by primary key
sqlite_commit(fset, id, path, h, v, m, t) ==
    IF id = 0
    THEN IF \E r \in fset : r.path = path
         THEN [raised |-> TRUE, files |-> fset]
         ELSE [raised |-> FALSE, files |-> sqlite_add_or_update(fset, path, h, v, m, t)]
    ELSE [raised |-> FALSE,
          files |-> {IF r.id = id
                     THEN [r EXCEPT !.file_hash = h, !.vector = v, !.last_modified = m,
                                    !.indexed_at = t]
                     ELSE r : r \in fset}]

UpsertInit ==
    /\ storeUp = TRUE
    /\ results = {}
    /\ nextId = 1
    /\ now = 1
    /\ tasks = [id \in TaskIds |-> NoTask]
    /\ cancelledSet = {}
    /\ ix = IdlePipeline
    /\ sc = IdlePipeline
    /\ cn = IdlePipeline
    /\ threading = TRUE
    /\ patterns = {}
    /\ backend \in {"sqlite", "redis"}
    /\ fs = [p \in Paths |-> NoFile]
    /\ files = {}
    /\ pool = [w \in Callers |-> IdleCaller]
    /\ hist = [returned |-> {}]

\* caller w enters add_or_update_indexed_file(path, ...) and looks the path up
UpsertLookup(w, p, c) ==
    /\ pool[w].st = "idle"
    /\ now < MaxClock
    /\ \E id \in upsert_lookup(backend, files, p, nextId) :
          pool' = [pool EXCEPT ![w] = [st |-> "looked", path |-> p, content |-> c,
                                       id |-> id]]
    /\ nextId' = nextId + 1
    /\ UNCHANGED <<backend, threading, storeUp, patterns, fs, files, results, now,
                   tasks, cancelledSet, ix, sc, cn, hist>>

\* caller w stores the document (JSON.SET, or the commit of the session) and
\* returns, or the commit raises
UpsertWrite(w) ==
    /\ pool[w].st = "looked"
    /\ LET q == pool[w]
           res == IF backend = "redis"
                  THEN [raised |-> FALSE,
                        files |-> redis_add_or_update(files, q.id, q.path,
                                      sha256(q.content), <<"vec", q.content>>, 1, now)]
                  ELSE sqlite_commit(files, q.id, q.path, sha256(q.content),
                                     <<"vec", q.content>>, 1, now)
       IN  /\ files' = res.files
           /\ hist' = [hist EXCEPT !.returned =
                          IF res.raised THEN @ ELSE @ \cup {q.path}]
    /\ pool' = [pool EXCEPT ![w] = IdleCaller]
    /\ now' = now + 1
    /\ UNCHANGED <<backend, threading, storeUp, patterns, fs, results, nextId, tasks,
                   cancelledSet, ix, sc, cn>>

UpsertNext ==
    \/ \E w \in Callers, p \in UpsertPaths, c \in StoreContents : UpsertLookup(w, p, c)
    \/ \E w \in Callers : UpsertWrite(w)

SpecUpsert == UpsertInit /\ [][UpsertNext]_vars

\* C11: upsert is safe under concurrent callers: for every interleaving, each
\* upsert that returned has its path in the store, no record of another path is
\* lost, and the store holds exactly one record per path. Checked under SpecUpsert.
C11_ConcurrentUpsertSafe ==
    \A p \in UpsertPaths :
        /\ Cardinality({r \in files : r.path = p}) <= 1
        /\ p \in hist.returned => \E r \in files : r.path = p


\* C13: every ScanResult is inserted with a matched_file_id that resolves to an
\* IndexedFile of the same store at the moment of insertion, for every interleaving
\* of a scan with deletions, the parallel scanner (which writes its results after
\* the workers have finished) included. Checked under SpecScan.
C13_ResultsResolveAtInsertion == hist.unresolved = {}


\* ---------------------------------------------------------------------------
\* SpecSimilarity: compute_similarity_with_validation applied to bounded inputs
\* ---------------------------------------------------------------------------

MaxRows == 6

\* scores are hundredths; a row of the matrix is given by the cosine similarity the
\* content has with it under the primary and under the secondary n-gram window
ScoreRows ==
    {<<64, 98>>, <<66, 50>>, <<66, 52>>, <<86, 84>>, <<86, 98>>, <<98, 52>>, <<98, 98>>}

ContentLengths == {199, 200}

SimilarityConfigs ==
    [similarity_threshold : {similarity_threshold},
     ngram_range_min : {1, 2}, ngram_range_max : {3, 5},
     require_multiple_matches : BOOLEAN]

max2(a, b) == IF a >= b THEN a ELSE b

min2(a, b) == IF a <= b THEN a ELSE b

\* a secondary check that does not look at the length of the content
secondary_applies_any_length(config, len) ==
    /\ config.require_multiple_matches
    /\ \/ max2(1, config.ngram_range_min - 1) # config.ngram_range_min
       \/ min2(5, config.ngram_range_max + 1) # config.ngram_range_max

\* scanner.py 61-66: the secondary check is made
secondary_applies(config, len) ==
    /\ config.require_multiple_matches
    /\ len >= 200
    /\ \/ max2(1, config.ngram_range_min - 1) # config.ngram_range_min
       \/ min2(5, config.ngram_range_max + 1) # config.ngram_range_max

\* secondary_score >= threshold * 0.8, in hundredths
secondary_agrees(config, secondary_score) ==
    10 * secondary_score >= 8 * config.similarity_threshold

\* matches.sort(key=score, reverse=True): stable, equal scores keep their order
RECURSIVE insert_desc(_, _)
insert_desc(m, sorted) ==
    IF sorted = <<>> THEN <<m>>
    ELSE IF Head(sorted).score >= m.score
         THEN <<Head(sorted)>> \o insert_desc(m, Tail(sorted))
         ELSE <<m>> \o sorted

RECURSIVE sort_desc(_)
sort_desc(ms) ==
    IF ms = <<>> THEN <<>>
    ELSE LET n == Len(ms)
         IN  insert_desc(ms[n], sort_desc(SubSeq(ms, 1, n - 1)))

\* the candidates of rows idx..Len(rows), in row order, as (id, score, match_type)
RECURSIVE build_matches(_, _, _, _)
build_matches(config, len, rows, idx) ==
    IF idx > Len(rows) THEN <<>>
    ELSE LET primary_score == rows[idx][1]
             secondary_score == rows[idx][2]
             rest == build_matches(config, len, rows, idx + 1)
         IN  IF primary_score < config.similarity_threshold THEN rest
             ELSE IF ~secondary_applies(config, len)
             THEN <<[matched_id |-> idx, score |-> primary_score,
                     match_type |-> get_match_type(primary_score)]>> \o rest
             ELSE IF secondary_agrees(config, secondary_score)
             THEN <<[matched_id |-> idx,
                     score |-> (primary_score + secondary_score) \div 2,
                     match_type |-> get_match_type((primary_score + secondary_score) \div 2)]>>
                  \o rest
             ELSE rest

\* compute_similarity_with_validation; computable is FALSE when the vectorizer or
\* the cosine raises (the matrix was built with another n_features)
compute_similarity_with_validation(config, len, rows, computable) ==
    IF ~computable THEN <<>>
    ELSE LET sorted == sort_desc(build_matches(config, len, rows, 1))
         IN  SubSeq(sorted, 1, min2(5, Len(sorted)))

SimInit ==
    /\ storeUp = TRUE
    /\ results = {}
    /\ nextId = 1
    /\ now = 1
    /\ tasks = [id \in TaskIds |-> NoTask]
    /\ cancelledSet = {}
    /\ ix = IdlePipeline
    /\ pool = [p \in Paths |-> NoFuture]
    /\ cn = IdlePipeline
    /\ threading = FALSE
    /\ patterns = {}
    /\ backend = "sqlite"
    /\ fs = [p \in Paths |-> NoFile]
    /\ files = {}
    /\ \E config \in SimilarityConfigs, len \in ContentLengths, computable \in BOOLEAN :
           sc = [pc |-> "input", config |-> config, len |-> len, rows |-> <<>>,
                 computable |-> computable]
    /\ hist = [matches |-> <<>>]

\* one more indexed vector in the matrix (rows are enumerated up to their order)
SimAddRow(row) ==
    /\ sc.pc = "input"
    /\ Len(sc.rows) < MaxRows
    /\ sc.rows # <<>> =>
           \/ sc.rows[Len(sc.rows)][1] < row[1]
           \/ sc.rows[Len(sc.rows)][1] = row[1] /\ sc.rows[Len(sc.rows)][2] <= row[2]
    /\ sc' = [sc EXCEPT !.rows = Append(@, row)]
    /\ UNCHANGED <<backend, threading, storeUp, patterns, fs, files, results, nextId,
                   now, tasks, cancelledSet, ix, pool, cn, hist>>

SimCompute ==
    /\ sc.pc = "input"
    /\ sc.rows # <<>>
    /\ sc' = [sc EXCEPT !.pc = "returned"]
    /\ hist' = [matches |-> compute_similarity_with_validation(
                                sc.config, sc.len, sc.rows, sc.computable)]
    /\ UNCHANGED <<backend, threading, storeUp, patterns, fs, files, results, nextId,
                   now, tasks, cancelledSet, ix, pool, cn>>

SimNext ==
    \/ \E row \in ScoreRows : SimAddRow(row)
    \/ SimCompute

SpecSimilarity == SimInit /\ [][SimNext]_vars

SimReturned == sc.pc = "returned"

SimMatchIds == {hist.matches[i].matched_id : i \in 1..Len(hist.matches)}

\* C14: every non-digest result has a score at or above similarity_threshold, the
\* results that passed the secondary validation (score = mean of the primary and the
\* secondary score) included. Checked under SpecSimilarity.
C14_ScoresReachThreshold ==
    SimReturned =>
        \A i \in 1..Len(hist.matches) :
            hist.matches[i].score >= sc.config.similarity_threshold

SimSecondaryRan ==
    /\ sc.config.require_multiple_matches
    /\ sc.len >= 200
    /\ <<max2(1, sc.config.ngram_range_min - 1), min2(5, sc.config.ngram_range_max + 1)>>
           # <<sc.config.ngram_range_min, sc.config.ngram_range_max>>

SimRetained ==
    {idx \in 1..Len(sc.rows) :
        /\ sc.rows[idx][1] >= sc.config.similarity_threshold
        /\ SimSecondaryRan => 10 * sc.rows[idx][2] >= 8 * sc.config.similarity_threshold}

SimReported(idx) ==
    IF SimSecondaryRan THEN (sc.rows[idx][1] + sc.rows[idx][2]) \div 2
    ELSE sc.rows[idx][1]

\* C18: the secondary validation runs iff require_multiple_matches is set, the
\* content has at least 200 characters and the window [max(1, ngram_min - 1),
\* min(5, ngram_max + 1)] differs from the configured one. When it runs a primary
\* candidate is retained iff its secondary score is >= 0.8 x similarity_threshold
\* and it is reported with the mean of both scores; when it does not run every
\* primary candidate is retained with its primary score. At most the top 5 by
\* score are returned, descending. Checked under SpecSimilarity.
C18_SecondaryValidation ==
    (SimReturned /\ sc.computable) =>
        /\ \A i \in 1..Len(hist.matches) :
               /\ hist.matches[i].matched_id \in SimRetained
               /\ hist.matches[i].score = SimReported(hist.matches[i].matched_id)
        /\ \A i, j \in 1..Len(hist.matches) :
               /\ i < j => hist.matches[i].score >= hist.matches[j].score
               /\ i # j => hist.matches[i].matched_id # hist.matches[j].matched_id
        /\ Len(hist.matches) = min2(5, Cardinality(SimRetained))
        /\ \A idx \in SimRetained \ SimMatchIds :
               \A i \in 1..Len(hist.matches) : hist.matches[i].score >= SimReported(idx)

C18_Witness ==
    /\ SimReturned /\ sc.computable /\ SimSecondaryRan
    /\ \E idx \in 1..Len(sc.rows) :
           sc.rows[idx][1] >= sc.config.similarity_threshold /\ idx \notin SimRetained
    /\ \E i \in 1..Len(hist.matches) :
           hist.matches[i].score # sc.rows[hist.matches[i].matched_id][1]

\* ---------------------------------------------------------------------------
\* SpecFindSimilar: find_similar_vectors of both backends on bounded inputs
\* ---------------------------------------------------------------------------

MaxTopK == 2

\* cosine similarity of the query with an indexed vector, in hundredths
FindScores == {64, 65, 66, 98, 100}

FindThresholds == {similarity_threshold, exact_match_threshold}

any_score(score, threshold) == TRUE

\* scores[i] >= threshold / similarity >= threshold
above_threshold(score, threshold) == score >= threshold

\* the (file id, score) pairs of the rows ids[from..], in that order, that pass
RECURSIVE filter_matches(_, _, _, _)
filter_matches(scores, ids, threshold, from) ==
    IF from > Len(ids) THEN <<>>
    ELSE IF above_threshold(scores[ids[from]], threshold)
         THEN <<[id |-> ids[from], score |-> scores[ids[from]]]>>
              \o filter_matches(scores, ids, threshold, from + 1)
         ELSE filter_matches(scores, ids, threshold, from + 1)

\* the members of a set of row numbers in ascending order
RECURSIVE ascending(_)
ascending(S) ==
    IF S = {} THEN <<>>
    ELSE LET m == CHOOSE x \in S : \A y \in S : x <= y
         IN  <<m>> \o ascending(S \ {m})

\* SQLiteStorageBackend.find_similar_vectors: every stored vector is compared
sqlite_find_similar_vectors(scores, threshold, top_k) ==
    LET matches == sort_desc(filter_matches(scores, ascending(DOMAIN scores), threshold, 1))
    IN  SubSeq(matches, 1, min2(top_k, Len(matches)))

\* the documents a KNN query for 2 * top_k neighbours may return: the HNSW index is
\* approximate, and the search returns one page of at most 10 documents
knn_pages(scores, top_k) ==
    {S \in SUBSET (DOMAIN scores) :
        Cardinality(S) = min2(min2(2 * top_k, 10), Len(scores))}

\* RedisStorageBackend.find_similar_vectors on the documents docs of the KNN query
redis_find_similar_vectors(scores, docs, threshold, top_k) ==
    LET matches == sort_desc(filter_matches(scores, ascending(docs), threshold, 1))
    IN  SubSeq(matches, 1, min2(top_k, Len(matches)))

FindInit ==
    /\ storeUp = TRUE
    /\ results = {}
    /\ nextId = 1
    /\ now = 1
    /\ tasks = [id \in TaskIds |-> NoTask]
    /\ cancelledSet = {}
    /\ ix = IdlePipeline
    /\ pool = [p \in Paths |-> NoFuture]
    /\ cn = IdlePipeline
    /\ threading = FALSE
    /\ patterns = {}
    /\ backend \in {"sqlite", "redis"}
    /\ fs = [p \in Paths |-> NoFile]
    /\ files = {}
    /\ sc = [pc |-> "input", scores |-> <<>>]
    /\ hist = [found |-> <<>>]

\* one more indexed file with a vector (rows are enumerated up to their order)
FindAddRow(score) ==
    /\ sc.pc = "input"
    /\ Len(sc.scores) < MaxRows
    /\ sc.scores # <<>> => sc.scores[Len(sc.scores)] <= score
    /\ sc' = [sc EXCEPT !.scores = Append(@, score)]
    /\ UNCHANGED <<backend, threading, storeUp, patterns, fs, files, results, nextId,
                   now, tasks, cancelledSet, ix, pool, cn, hist>>

FindSimilar(threshold, top_k) ==
    /\ sc.pc = "input"
    /\ sc' = [pc |-> "returned", scores |-> sc.scores, threshold |-> threshold,
              top_k |-> top_k]
    /\ IF backend = "sqlite"
       THEN hist' = [found |-> sqlite_find_similar_vectors(sc.scores, threshold, top_k)]
       ELSE \E docs \in knn_pages(sc.scores, top_k) :
               hist' = [found |-> redis_find_similar_vectors(sc.scores, docs,
                                                             threshold, top_k)]
    /\ UNCHANGED <<backend, threading, storeUp, patterns, fs, files, results, nextId,
                   now, tasks, cancelledSet, ix, pool, cn>>

FindNext ==
    \/ \E score \in FindScores : FindAddRow(score)
    \/ \E threshold \in FindThresholds, top_k \in 1..MaxTopK : FindSimilar(threshold, top_k)

SpecFindSimilar == FindInit /\ [][FindNext]_vars

\* C17: find_similar(v, threshold, k) on either backend never returns a row with a
\* score below the threshold, returns the rows sorted by score descending, returns
\* at most k rows, and returns no file id twice. Checked under SpecFindSimilar.
C17_FindSimilarContract ==
    sc.pc = "returned" =>
        /\ \A i \in 1..Len(hist.found) : hist.found[i].score >= sc.threshold
        /\ \A i, j \in 1..Len(hist.found) :
               /\ i < j => hist.found[i].score >= hist.found[j].score
               /\ i # j => hist.found[i].id # hist.found[j].id
        /\ Len(hist.found) <= sc.top_k

C17_Witness ==
    /\ sc.pc = "returned"
    /\ backend = "redis"
    /\ Len(hist.found) = sc.top_k
    /\ sc.top_k > 1
    /\ \E i \in DOMAIN sc.scores : sc.scores[i] < sc.threshold
    /\ Cardinality({i \in DOMAIN sc.scores : sc.scores[i] >= sc.threshold}) > sc.top_k

\* ---------------------------------------------------------------------------
\* SpecProgress: the progress store with its subscribers. The pipelines call
\* update_task on worker threads; the event loop runs the handlers (create,
\* subscribe, unsubscribe, cancel). In this specification sc holds _subscribers,
\* cn the channels (everything put on each queue, in order), pool the position
\* of each thread inside update_task, nextId the next queue to be created.
\* ---------------------------------------------------------------------------

MaxSubscribers == 2

MaxUpdates == 3

Queues == 1..MaxSubscribers

Threads == {"index", "scan", "loop"}

\* the task a thread publishes on
TaskOf(t) == IF t = "scan" THEN ScanId ELSE IndexId

IdleThread == [pc |-> "idle", n |-> 0]

ProgInit ==
    /\ storeUp = TRUE
    /\ results = {}
    /\ nextId = 1
    /\ now = 1
    /\ tasks = [id \in TaskIds |-> NoTask]
    /\ cancelledSet = {}
    /\ ix = IdlePipeline
    /\ threading = TRUE
    /\ patterns = {}
    /\ backend = "sqlite"
    /\ fs = [p \in Paths |-> NoFile]
    /\ files = {}
    /\ sc = [id \in TaskIds |-> <<>>]
    /\ cn = [q \in Queues |-> <<>>]
    /\ pool = [t \in Threads |-> IdleThread]
    /\ hist = [updates |-> 0, committed |-> [id \in TaskIds |-> 0],
               task_of |-> <<>>,
               owner |-> [q \in Queues |-> "none"],
               since |-> [q \in Queues |-> 0],
               until |-> [q \in Queues |-> MaxUpdates + 1]]

\* the members of _subscribers[id], as a set
subscribed(id) == {sc[id][i] : i \in 1..Len(sc[id])}

\* list.remove(queue)
RECURSIVE list_remove(_, _)
list_remove(list, q) ==
    IF list = <<>> THEN <<>>
    ELSE IF Head(list) = q THEN Tail(list)
    ELSE <<Head(list)>> \o list_remove(Tail(list), q)

\* create_task on the event loop (POST /index, POST /scan): _subscribers[id] = []
ProgCreate(id) ==
    /\ pool["loop"].pc = "idle"
    /\ tasks[id] = NoTask
    /\ tasks' = create_task(tasks, id, IF id = ScanId THEN "scan" ELSE "index")
    /\ sc' = [sc EXCEPT ![id] = <<>>]
    /\ hist' = [hist EXCEPT !.until =
                   [q \in Queues |-> IF q \in subscribed(id) THEN hist.updates ELSE @[q]]]
    /\ UNCHANGED <<backend, threading, storeUp, patterns, fs, files, results, nextId,
                   now, cancelledSet, ix, pool, cn>>

\* subscribe(task_id) of a websocket handler
ProgSubscribe(id) ==
    /\ pool["loop"].pc = "idle"
    /\ nextId <= MaxSubscribers
    /\ sc' = [sc EXCEPT ![id] = Append(@, nextId)]
    /\ nextId' = nextId + 1
    /\ hist' = [hist EXCEPT !.owner[nextId] = id, !.since[nextId] = hist.updates]
    /\ UNCHANGED <<backend, threading, storeUp, patterns, fs, files, results, now,
                   tasks, cancelledSet, ix, pool, cn>>

\* unsubscribe(task_id, queue) in the finally of a websocket handler
ProgUnsubscribe(id, q) ==
    /\ pool["loop"].pc = "idle"
    /\ q \in subscribed(id)
    /\ sc' = [sc EXCEPT ![id] = list_remove(@, q)]
    /\ hist' = [hist EXCEPT !.until[q] = hist.updates]
    /\ UNCHANGED <<backend, threading, storeUp, patterns, fs, files, results, nextId,
                   now, tasks, cancelledSet, ix, pool, cn>>

\* update_task up to the call of _notify_subscribers: the fields are set
ProgApply(t, kwargs) ==
    /\ pool[t].pc = "idle"
    /\ hist.updates < MaxUpdates
    /\ tasks[TaskOf(t)] # NoTask
    /\ tasks' = update_task(tasks, TaskOf(t), kwargs)
    /\ pool' = [pool EXCEPT ![t] = [pc |-> "notify", n |-> pool[t].n + 1, i |-> 1,
                                    update |-> hist.updates + 1]]
    /\ hist' = [hist EXCEPT !.updates = @ + 1,
                            !.committed[TaskOf(t)] = hist.updates + 1,
                            !.task_of = Append(@, TaskOf(t))]

\* update_progress of the parallel indexer / the progress update of a scan loop
ProgPipelineUpdate(t) ==
    /\ t \in {"index", "scan"}
    /\ ProgApply(t, IF t = "index"
                    THEN [files_processed |-> pool[t].n + 1, files_indexed |-> pool[t].n + 1,
                          current_file |-> PathA]
                    ELSE [files_scanned |-> pool[t].n + 1, current_file |-> PathA])
    /\ UNCHANGED <<backend, threading, storeUp, patterns, fs, files, results, nextId,
                   now, cancelledSet, ix, sc, cn>>

\* cancel_task(index_id) called by stop_indexing on the event loop
ProgCancel ==
    /\ IndexId \notin cancelledSet
    /\ cancelledSet' = cancelledSet \cup {IndexId}
    /\ ProgApply("loop", [status |-> "cancelling"])
    /\ UNCHANGED <<backend, threading, storeUp, patterns, fs, files, results, nextId,
                   now, ix, sc, cn>>

\* _notify_subscribers: the next step of `for queue in self._subscribers[task_id]`
\* and the evaluation of progress.to_dict()
ProgSnapshot(t) ==
    /\ pool[t].pc = "notify"
    /\ pool' = [pool EXCEPT ![t] =
                   IF pool[t].i > Len(sc[TaskOf(t)]) THEN [pc |-> "idle", n |-> pool[t].n]
                   ELSE [pool[t] EXCEPT
                            !.pc = "put",
                            !.i = @ + 1] @@
                        [queue |-> sc[TaskOf(t)][pool[t].i],
                         snapshot |-> [dict |-> to_dict(tasks[TaskOf(t)]),
                                       update |-> pool[t].update,
                                       version |-> hist.committed[TaskOf(t)]]]]
    /\ UNCHANGED <<backend, threading, storeUp, patterns, fs, files, results, nextId,
                   now, tasks, cancelledSet, ix, sc, cn, hist>>

\* queue.put_nowait(snapshot): the queues are unbounded, nothing is dropped
ProgPut(t) ==
    /\ pool[t].pc = "put"
    /\ cn' = [cn EXCEPT ![pool[t].queue] = Append(@, pool[t].snapshot)]
    /\ pool' = [pool EXCEPT ![t] = [pc |-> "notify", n |-> pool[t].n, i |-> pool[t].i,
                                    update |-> pool[t].update]]
    /\ UNCHANGED <<backend, threading, storeUp, patterns, fs, files, results, nextId,
                   now, tasks, cancelledSet, ix, sc, hist>>

ProgNext ==
    \/ \E id \in TaskIds : ProgCreate(id)
    \/ \E id \in TaskIds : ProgSubscribe(id)
    \/ \E id \in TaskIds, q \in Queues : ProgUnsubscribe(id, q)
    \/ \E t \in Threads : ProgPipelineUpdate(t)
    \/ ProgCancel
    \/ \E t \in Threads : ProgSnapshot(t)
    \/ \E t \in Threads : ProgPut(t)

SpecProgress == ProgInit /\ [][ProgNext]_vars

\* C19: a subscriber observes the updates of a task in the order they were
\* committed: on one channel files_processed never decreases and no older snapshot
\* is delivered after a newer one, also when a pipeline and the cancel call
\* publish concurrently. Checked under SpecProgress.
C19_ChannelInCommitOrder ==
    \A q \in Queues : \A i, j \in 1..Len(cn[q]) :
        i < j =>
            /\ cn[q][i].dict.files_processed <= cn[q][j].dict.files_processed
            /\ cn[q][i].version <= cn[q][j].version

\* the number of snapshots update u has put on queue q
ProgDelivered(q, u) == Cardinality({i \in 1..Len(cn[q]) : cn[q][i].update = u})

ProgQuiet == \A t \in Threads : pool[t].pc = "idle"

\* C20: every update of a registered task sets its fields and then puts exactly one
\* snapshot on the channel of every current subscriber of that task; a channel
\* that was unsubscribed receives nothing from later updates, and the
\* subscriptions of other tasks receive nothing. Checked under SpecProgress, once
\* every call of update_task has returned.
C20_OneSnapshotPerSubscriber ==
    ProgQuiet =>
        \A q \in Queues : \A u \in 1..hist.updates :
            /\ (hist.owner[q] = hist.task_of[u] /\ hist.since[q] < u
                  /\ q \in subscribed(hist.task_of[u]))
                   => ProgDelivered(q, u) = 1
            /\ hist.until[q] < u => ProgDelivered(q, u) = 0
            /\ hist.owner[q] # hist.task_of[u] => ProgDelivered(q, u) = 0

\* C21: the status of an index task only moves forward along pending -> counting ->
\* processing -> completed or, after a cancel, ... -> cancelling -> cancelled;
\* total_files is published together with the move to processing; once the
\* status is cancelling the only status that can follow is cancelled. Checked
\* under SpecIndex (a move to error is not judged here).
C21_StatusMovesForward ==
    [][(IndexTask # NoTask /\ tasks'[IndexId] # NoTask
          /\ tasks'[IndexId].status # "error")
          => LET old == IndexTask.status
                 new == tasks'[IndexId].status
             IN  /\ old # new =>
                       \/ old = "pending" /\ new \in {"counting", "cancelling"}
                       \/ old = "counting" /\ new \in {"processing", "cancelling"}
                       \/ old = "processing" /\ new \in {"completed", "cancelling", "cancelled"}
                       \/ old = "cancelling" /\ new = "cancelled"
                 /\ tasks'[IndexId].total_files # IndexTask.total_files
                       => (old = "counting" /\ new = "processing")]_vars

\* C22: in every reachable state the status of every task held by the progress
\* store is one of pending, counting, processing, completed, cancelling,
\* cancelled, error, and its task_type is index or scan. Checked under SpecScan.
C22_StatusAndTypeInRange ==
    \A id \in TaskIds :
        tasks[id] # NoTask =>
            /\ tasks[id].status \in {"pending", "counting", "processing", "completed",
                                     "cancelling", "cancelled", "error"}
            /\ tasks[id].task_type \in {"index", "scan"}

C34_TerminalAfterDrain ==
    [][/\ ix.pc \in {"clear", "done"} =>
             /\ files' = files
             /\ threading => \A p \in Paths : pool[p].st \notin {"pending", "running"}
       /\ (IndexTask # NoTask /\ IndexTask.status \in {"completed", "cancelled"})
             => ix.pc \in {"clear", "done"}
       /\ (IndexId \in cancelledSet /\ IndexId \notin cancelledSet')
             => (ix.pc = "clear" /\ files' = files)]_vars

C34_Witness ==
    /\ ix.pc = "done"
    /\ threading
    /\ ix.cancelled
    /\ IndexTask.status = "cancelled"
    /\ \E p \in Paths : pool[p].st = "done" /\ pool[p].out = "indexed"
    /\ \E p \in Paths : pool[p].st = "cancelled"

\* C36: the counts an index run records are exact: when the run has ended,
\* completed or cancelled, sequential or parallel, files_indexed of the task and
\* of the index_operations row equals the number of files the run upserted,
\* and files_processed the number of files whose work was carried out
C36_CountsExact ==
    ix.pc = "done" =>
        /\ IndexTask.files_indexed = hist.upserted
        /\ ix.files_indexed = hist.upserted
        /\ IndexTask.files_processed = hist.worked

\* ---------------------------------------------------------------------------
\* SpecIgnore: should_ignore on a pipeline thread while the handlers change the
\* ignore list. Here patterns is the list object held by the store (a sequence)
\* and ix the position of the reader inside IgnoredFilesConfig.should_ignore.
\* ---------------------------------------------------------------------------

MaxMutations == 2

IgnorePatterns == {"*.log", "notes.md", ".DS_Store"}

IgnoreNames == {"app.log", "notes.md"}

\* the lists without repetition
IgnoreLists ==
    {l \in UNION {[1..n -> IgnorePatterns] : n \in 0..2} :
        \A i, j \in DOMAIN l : i # j => l[i] # l[j]}

\* one turn of the loop of should_ignore: fnmatch, or the case-insensitive
\* comparison of a pattern without wildcard
pattern_matches(name, pat) ==
    \/ fnmatch(name, pat)
    \/ (~has_wildcard(pat) /\ lower(name) = lower(pat))

\* should_ignore evaluated against one list
should_ignore_list(name, list) == \E i \in DOMAIN list : pattern_matches(name, list[i])

IgnoreInit ==
    /\ storeUp = TRUE
    /\ results = {}
    /\ nextId = 1
    /\ now = 1
    /\ tasks = [id \in TaskIds |-> NoTask]
    /\ cancelledSet = {}
    /\ sc = IdlePipeline
    /\ cn = IdlePipeline
    /\ pool = IdlePipeline
    /\ threading = TRUE
    /\ backend = "sqlite"
    /\ fs = [p \in Paths |-> NoFile]
    /\ files = {}
    /\ patterns \in IgnoreLists
    /\ ix = IdlePipeline
    /\ hist = [mutations |-> 0, lists |-> {}]

\* a handler has changed the list: in place (add_pattern, remove_pattern) the
\* reader's list object changes with it, by replacement (set_patterns,
\* reset_to_defaults) the reader keeps the object it holds
IgnoreMutate(new, in_place) ==
    /\ hist.mutations < MaxMutations
    /\ new # patterns
    /\ patterns' = new
    /\ ix' = IF ix.pc # "loop" THEN ix
             ELSE IF in_place /\ ix.live THEN [ix EXCEPT !.list = new]
             ELSE [ix EXCEPT !.live = FALSE]
    /\ hist' = [mutations |-> hist.mutations + 1,
                lists |-> IF ix.pc \in {"test", "loop"} THEN hist.lists \cup {new}
                          ELSE hist.lists]
    /\ UNCHANGED <<backend, threading, storeUp, fs, files, results, nextId, now, tasks,
                   cancelledSet, sc, pool, cn>>

set_patterns(new) == IgnoreMutate(new, FALSE)

add_pattern(pat) ==
    /\ \A i \in DOMAIN patterns : patterns[i] # pat
    /\ Len(patterns) < 2
    /\ IgnoreMutate(Append(patterns, pat), TRUE)

remove_pattern(pat) ==
    /\ \E i \in DOMAIN patterns : patterns[i] = pat
    /\ IgnoreMutate(list_remove(patterns, pat), TRUE)

reset_to_defaults == IgnoreMutate(<<>>, FALSE)

\* should_ignore(filename) is entered: `if not self.patterns: return False`
ShouldIgnoreTest(name) ==
    /\ ix.pc \in {"idle", "returned"}
    /\ ix' = IF patterns = <<>>
             THEN [pc |-> "returned", name |-> name, value |-> FALSE]
             ELSE [pc |-> "test", name |-> name]
    /\ hist' = [hist EXCEPT !.lists = {patterns}]
    /\ UNCHANGED <<backend, threading, storeUp, patterns, fs, files, results, nextId,
                   now, tasks, cancelledSet, sc, pool, cn>>

\* `for pattern in self.patterns`: the iterator is bound to the current list object
ShouldIgnoreIter ==
    /\ ix.pc = "test"
    /\ ix' = [pc |-> "loop", name |-> ix.name, list |-> patterns, live |-> TRUE, i |-> 1]
    /\ UNCHANGED <<backend, threading, storeUp, patterns, fs, files, results, nextId,
                   now, tasks, cancelledSet, sc, pool, cn, hist>>

\* one turn of the loop, or its end
ShouldIgnoreStep ==
    /\ ix.pc = "loop"
    /\ ix' = IF ix.i > Len(ix.list)
             THEN [pc |-> "returned", name |-> ix.name, value |-> FALSE]
             ELSE IF pattern_matches(ix.name, ix.list[ix.i])
             THEN [pc |-> "returned", name |-> ix.name, value |-> TRUE]
             ELSE [ix EXCEPT !.i = @ + 1]
    /\ UNCHANGED <<backend, threading, storeUp, patterns, fs, files, results, nextId,
                   now, tasks, cancelledSet, sc, pool, cn, hist>>

IgnoreNext ==
    \/ \E new \in IgnoreLists : set_patterns(new)
    \/ \E pat \in IgnorePatterns : add_pattern(pat)
    \/ \E pat \in IgnorePatterns : remove_pattern(pat)
    \/ reset_to_defaults
    \/ \E name \in IgnoreNames : ShouldIgnoreTest(name)
    \/ ShouldIgnoreIter
    \/ ShouldIgnoreStep

SpecIgnore == IgnoreInit /\ [][IgnoreNext]_vars

\* C24: a should_ignore call that runs concurrently with set_patterns,
\* add_pattern, remove_pattern or reset_to_defaults is evaluated against exactly
\* the prior list or exactly the new list: its value is the value of should_ignore
\* on one of the lists the store held during the call. Checked under SpecIgnore.
C24_AtomicReplace ==
    ix.pc = "returned" =>
        \E list \in hist.lists : ix.value = should_ignore_list(ix.name, list)

\* ---------------------------------------------------------------------------
\* SpecConfig: the configuration stores, the dotfile they persist to and the
\* shared Redis pools. Here fs is the content of the dotfile (a sequence of
\* lines), cn the configuration in memory, pool the class-level Redis pools (each
\* named by the host it was built for), sc the last store handle created and
\* storeUp tells whether the dotfile can be written.
\* ---------------------------------------------------------------------------

MaxConfigChanges == 2

EnvKeys == {"THREADING_MAX_WORKERS", "REDIS_HOST", "IGNORED_FILES"}

\* a line of the dotfile that names a key: KEY=value ("active"), #KEY=value
\* ("commented"), or a line the pattern ^#?\s*KEY=.*$ does not match ("other",
\* such as `export KEY=value`)
EnvLines == [key : EnvKeys, value : {"old"}, form : {"active", "commented", "other"}]

EnvFiles == UNION {[1..n -> EnvLines] : n \in 0..2}

\* pattern.search(content) for key
env_pattern_found(content, key) ==
    \E i \in DOMAIN content : content[i].key = key /\ content[i].form # "other"

\* pattern.sub(new_line, content): every matching line becomes KEY=value
env_pattern_sub(content, key, value) ==
    [i \in DOMAIN content |->
        IF content[i].key = key /\ content[i].form # "other"
        THEN [key |-> key, value |-> value, form |-> "active"]
        ELSE content[i]]

\* one turn of the loop of persist_env_vars
persist_env_var(content, key, value) ==
    IF env_pattern_found(content, key) THEN env_pattern_sub(content, key, value)
    ELSE Append(content, [key |-> key, value |-> value, form |-> "active"])

\* StorageConfigStore._persist followed by persist_env_vars; nothing is written
\* when the file cannot be written
storage_persist(content, writable, config) ==
    IF ~writable THEN content
    ELSE persist_env_var(persist_env_var(content, "REDIS_HOST", config.redis_host),
                         "THREADING_MAX_WORKERS", config.max_workers)

\* _persist_to_env of the ignored files: a file that names IGNORED_FILES on a line
\* the pattern does not match is written back unchanged
persist_to_env(content, writable, value) ==
    IF ~writable THEN content
    ELSE IF env_pattern_found(content, "IGNORED_FILES")
    THEN env_pattern_sub(content, "IGNORED_FILES", value)
    ELSE IF \E i \in DOMAIN content : content[i].key = "IGNORED_FILES" THEN content
    ELSE Append(content, [key |-> "IGNORED_FILES", value |-> value, form |-> "active"])

\* the configuration as loaded from the environment: get_env_int checks no range
ConfigInit ==
    /\ results = {}
    /\ nextId = 1
    /\ now = 1
    /\ tasks = [id \in TaskIds |-> NoTask]
    /\ cancelledSet = {}
    /\ ix = IdlePipeline
    /\ threading = TRUE
    /\ patterns = {}
    /\ backend = "redis"
    /\ files = {}
    /\ storeUp \in BOOLEAN
    /\ fs \in EnvFiles
    /\ \E w \in {0, 4, 33} :
          cn = [max_workers |-> w, redis_host |-> "host1", ignored |-> "old"]
    /\ pool = [binary |-> "none", string |-> "none"]
    /\ sc = IdlePipeline
    /\ hist = [changes |-> 0, persisted |-> {}]

\* PUT /config/threading: an absent or zero max_workers keeps the current value;
\* a value outside 1..32 is answered with 400
update_threading_config(max_workers) ==
    /\ hist.changes < MaxConfigChanges
    /\ LET w == IF max_workers # 0 THEN max_workers ELSE cn.max_workers
       IN  /\ w >= 1 /\ w <= 32
           /\ cn' = [cn EXCEPT !.max_workers = w]
           /\ fs' = storage_persist(fs, storeUp, cn')
           /\ hist' = [changes |-> hist.changes + 1,
                       persisted |-> {<<"THREADING_MAX_WORKERS", w>>,
                                      <<"REDIS_HOST", cn.redis_host>>}]
    /\ UNCHANGED <<backend, threading, storeUp, patterns, files, results, nextId, now,
                   tasks, cancelledSet, ix, sc, pool>>

\* update_redis_config(host): the RedisConfig object is changed in place
update_redis_config(host) ==
    /\ hist.changes < MaxConfigChanges
    /\ cn' = [cn EXCEPT !.redis_host = host]
    /\ fs' = storage_persist(fs, storeUp, cn')
    /\ hist' = [changes |-> hist.changes + 1,
                persisted |-> {<<"THREADING_MAX_WORKERS", cn.max_workers>>,
                               <<"REDIS_HOST", host>>}]
    /\ UNCHANGED <<backend, threading, storeUp, patterns, files, results, nextId, now,
                   tasks, cancelledSet, ix, sc, pool>>

\* set_patterns / add_pattern / remove_pattern / reset_to_defaults, as to what
\* they persist
persist_ignored_files(value) ==
    /\ hist.changes < MaxConfigChanges
    /\ cn' = [cn EXCEPT !.ignored = value]
    /\ fs' = persist_to_env(fs, storeUp, value)
    /\ hist' = [changes |-> hist.changes + 1, persisted |-> {<<"IGNORED_FILES", value>>}]
    /\ UNCHANGED <<backend, threading, storeUp, patterns, files, results, nextId, now,
                   tasks, cancelledSet, ix, sc, pool>>

\* get_storage_backend() with the Redis backend: RedisStorageBackend.__init__ takes
\* the shared pools. _pool_config is the very RedisConfig object the store changes
\* in place, so `_pool_config != config` is false once a pool exists; the string
\* pool is built only when there is none.
get_storage_backend ==
    /\ pool' = [binary |-> IF pool.binary = "none" THEN cn.redis_host ELSE pool.binary,
                string |-> IF pool.string = "none" THEN cn.redis_host ELSE pool.string]
    /\ sc' = [pc |-> "handle", binary |-> pool'.binary, string |-> pool'.string,
              config |-> cn.redis_host]
    /\ UNCHANGED <<backend, threading, storeUp, patterns, fs, files, results, nextId,
                   now, tasks, cancelledSet, ix, cn, hist>>

ConfigNext ==
    \/ \E w \in {0, 1, 32, 33} : update_threading_config(w)
    \/ \E host \in {"host1", "host2"} : update_redis_config(host)
    \/ \E value \in {"new1", "new2"} : persist_ignored_files(value)
    \/ get_storage_backend

SpecConfig == ConfigInit /\ [][ConfigNext]_vars

\* C25: after a configuration change made through the control surface the
\* configuration in memory reflects the change and the dotfile holds the new
\* value on exactly one line for each persisted key, whatever the file held
\* before (a commented line, several lines for the key). Checked under SpecConfig.
C25_PersistedOnOneLine ==
    \A kv \in hist.persisted :
        /\ Cardinality({i \in DOMAIN fs : fs[i].key = kv[1] /\ fs[i].form = "active"}) = 1
        /\ \E i \in DOMAIN fs :
               fs[i].key = kv[1] /\ fs[i].form = "active" /\ fs[i].value = kv[2]
        /\ kv[1] = "THREADING_MAX_WORKERS" => cn.max_workers = kv[2]
        /\ kv[1] = "REDIS_HOST" => cn.redis_host = kv[2]
        /\ kv[1] = "IGNORED_FILES" => cn.ignored = kv[2]

\* C27: in every reachable configuration state, loaded from the environment or
\* changed through the control surface, the worker-pool size a pipeline uses
\* satisfies 1 <= max_workers <= 32. Checked under SpecConfig.
C27_MaxWorkersInRange == cn.max_workers >= 1 /\ cn.max_workers <= 32

\* C29: after the Redis connection configuration has changed, the next store
\* handle created uses a binary pool and a string pool both built from the new
\* configuration, never a pool built from the old one. Checked under SpecConfig.
C29_PoolsFollowConfig ==
    sc.pc = "handle" => (sc.binary = sc.config /\ sc.string = sc.config)

\* ---------------------------------------------------------------------------
\* SpecValidate: POST /index and POST /scan with validate_path_security. A path
\* is the sequence of its characters; hist keeps the path of each request.
\* ---------------------------------------------------------------------------

\* the directories /d, /d/s and /db, the file /d/f, and the absent /x
ExistingDirs == {<<"/", "d">>, <<"/", "d", "/", "s">>, <<"/", "d", "b">>}

ExistingFiles == {<<"/", "d", "/", "f">>}

RequestPaths == ExistingDirs \cup ExistingFiles \cup {<<>>, <<"NUL">>, <<"/", "x">>}

\* resolved_path.startswith(os.path.realpath(allowed_dir))
startswith(path, prefix) ==
    Len(prefix) <= Len(path) /\ SubSeq(path, 1, Len(prefix)) = prefix

\* validate_path_security does not raise
path_accepted(path, allowed) ==
    /\ path # <<>>
    /\ \A i \in DOMAIN path : path[i] # "NUL"
    /\ allowed # {} => \E allowed_dir \in allowed : startswith(path, allowed_dir)
    /\ path \in ExistingDirs

ValidateInit ==
    /\ InitIdle
    /\ backend = "sqlite"
    /\ threading = FALSE
    /\ fs = [p \in Paths |-> NoFile]
    /\ files = {}
    /\ patterns \in {{}, {<<"/", "d">>}}
    /\ hist = [index |-> <<"none">>, scan |-> <<"none">>]

\* POST /index: a rejected request is answered 400 or 403 before create_index
ValidateIndex(path) ==
    /\ hist.index = <<"none">>
    /\ hist' = [hist EXCEPT !.index = path]
    /\ IF path_accepted(path, patterns)
       THEN /\ tasks' = create_task(tasks, IndexId, "index")
            /\ ix' = [pc |-> "scheduled"]
       ELSE UNCHANGED <<tasks, ix>>
    /\ UNCHANGED <<backend, threading, storeUp, patterns, fs, files, results, nextId,
                   now, cancelledSet, sc, pool, cn>>

\* POST /scan
ValidateScan(path) ==
    /\ hist.scan = <<"none">>
    /\ hist' = [hist EXCEPT !.scan = path]
    /\ IF path_accepted(path, patterns)
       THEN /\ tasks' = create_task(tasks, ScanId, "scan")
            /\ sc' = [pc |-> "scheduled"]
       ELSE UNCHANGED <<tasks, sc>>
    /\ UNCHANGED <<backend, threading, storeUp, patterns, fs, files, results, nextId,
                   now, cancelledSet, ix, pool, cn>>

ValidateNext ==
    \/ \E path \in RequestPaths : ValidateIndex(path)
    \/ \E path \in RequestPaths : ValidateScan(path)

SpecValidate == ValidateInit /\ [][ValidateNext]_vars

\* the path is a listed root or lies below one
under_listed_root(path) ==
    \E root \in patterns : path = root \/ startswith(path, root \o <<"/">>)

\* C28: a request whose path is empty, contains NUL, does not exist, is not a
\* directory or, with a non-empty allow-list, is not under a listed root is
\* rejected: no task is registered and no pipeline is started. Checked under
\* SpecValidate.
C28_InvalidPathSpawnsNothing ==
    /\ (\/ hist.index \in {<<>>, <<"NUL">>}
        \/ hist.index \notin ExistingDirs
        \/ (patterns # {} /\ ~under_listed_root(hist.index)))
          => (tasks[IndexId] = NoTask /\ ix.pc = "idle")
    /\ (\/ hist.scan \in {<<>>, <<"NUL">>}
        \/ hist.scan \notin ExistingDirs
        \/ (patterns # {} /\ ~under_listed_root(hist.scan)))
          => (tasks[ScanId] = NoTask /\ sc.pc = "idle")

-----------------------------------------------------------------------------
(* Digest lookups against the store while records are upserted and deleted.
   files is the content of the store, storeUp whether it answers, hist.last
   the last call and what it returned. *)

DigestPaths == {PathA, PathB}
DigestContents == {"text1", "text2"}

\* RedisStorageBackend.find_by_hash: the FT.SEARCH sits in a try whose except
\* prints the exception and falls through to `return None`
redis_find_by_hash(up, fset, h) ==
    IF ~up THEN {NoRec} ELSE find_by_hash("redis", fset, h)

DigestInit ==
    /\ InitIdle
    /\ threading = FALSE
    /\ patterns = {}
    /\ backend \in {"sqlite", "redis"}
    /\ fs = [p \in Paths |-> NoFile]
    /\ files = {}
    /\ hist = [outages |-> 0, last |-> NoOp]

\* storage.add_or_update_indexed_file(...) from any handle; the call returns
\* after the commit or the JSON.SET, and raises while the store is away
DigestUpsert(p, c) ==
    /\ storeUp
    /\ now < MaxClock
    /\ \E id \in upsert_ids(backend, files, p, nextId) :
          files' = add_or_update_indexed_file(backend, files, id, p, sha256(c),
                                              <<"vec", c>>, 1, now)
    /\ nextId' = nextId + 1
    /\ now' = now + 1
    /\ hist' = [hist EXCEPT !.last = [op |-> "upsert", file_hash |-> sha256(c)]]
    /\ UNCHANGED <<backend, threading, storeUp, patterns, fs, results, tasks,
                   cancelledSet, ix, sc, pool, cn>>

\* storage.delete_indexed_file(file_id)
DigestDelete(r) ==
    /\ storeUp
    /\ files' = delete_indexed_file(files, r.id)
    /\ hist' = [hist EXCEPT !.last = [op |-> "delete", file_hash |-> r.file_hash]]
    /\ UNCHANGED <<backend, threading, storeUp, patterns, fs, results, nextId, now,
                   tasks, cancelledSet, ix, sc, pool, cn>>

\* storage.find_by_hash(file_hash) returns; the query of the SQLite backend
\* raises while the database is away
DigestFind(c) ==
    /\ sqlite_up
    /\ \E r \in (IF backend = "redis" THEN redis_find_by_hash(storeUp, files, sha256(c))
                 ELSE find_by_hash(backend, files, sha256(c))) :
          hist' = [hist EXCEPT !.last =
                     [op |-> "find", file_hash |-> sha256(c), value |-> r,
                      stored |-> \E x \in files : x.file_hash = sha256(c)]]
    /\ UNCHANGED <<backend, threading, storeUp, patterns, fs, files, results, nextId,
                   now, tasks, cancelledSet, ix, sc, pool, cn>>

DigestNext ==
    \/ \E p \in DigestPaths, c \in DigestContents : DigestUpsert(p, c)
    \/ \E r \in files : DigestDelete(r)
    \/ \E c \in DigestContents : DigestFind(c)
    \/ StoreDown
    \/ StoreBack

SpecDigest == DigestInit /\ [][DigestNext]_vars

\* C30: find_by_hash reflects every upsert that returned before it: when a
\* record with digest d is in the store (upserted, not deleted or overwritten
\* since), find_by_hash(d) returns a record with digest d
C30_FindReflectsUpserts ==
    (hist.last.op = "find" /\ hist.last.stored)
        => (hist.last.value # NoRec /\ hist.last.value.file_hash = hist.last.file_hash)

-----------------------------------------------------------------------------
(* The cancel flag of the progress store. The event loop runs create_task,
   cancel_task and cleanup; a pipeline thread runs update_task and
   clear_cancelled between the statements of cancel_task. In this specification
   pool is the position of the event loop inside cancel_task, cn the number of
   snapshots published per task, hist.flag the cancel that is still in force. *)

MaxPublished == 3

\* self._cancelled.add(task_id)
cancelled_add(set, id) == set \cup {id}

cancelled_keep(set, id) == set

\* self._cancelled.discard(task_id)
cancelled_discard(set, id) == cancelled_keep(set, id) \ {id}

CancelInit ==
    /\ storeUp = TRUE
    /\ results = {}
    /\ nextId = 1
    /\ now = 1
    /\ tasks = [id \in TaskIds |-> NoTask]
    /\ cancelledSet = {}
    /\ ix = IdlePipeline
    /\ sc = IdlePipeline
    /\ threading = FALSE
    /\ patterns = {}
    /\ backend = "sqlite"
    /\ fs = [p \in Paths |-> NoFile]
    /\ files = {}
    /\ cn = [id \in TaskIds |-> 0]
    /\ pool = [pc |-> "idle"]
    /\ hist = [flag |-> [id \in TaskIds |-> FALSE], last |-> NoOp]

\* create_task(task_id, task_type)
CancelCreate(id) ==
    /\ pool.pc = "idle"
    /\ tasks[id] = NoTask
    /\ tasks' = create_task(tasks, id, IF id = ScanId THEN "scan" ELSE "index")
    /\ hist' = [hist EXCEPT !.last = [op |-> "create", id |-> id]]
    /\ UNCHANGED <<backend, threading, storeUp, patterns, fs, files, results, nextId,
                   now, cancelledSet, ix, sc, pool, cn>>

\* cancel_task: `if task_id in self._tasks`, else `return False`
CancelTest(id) ==
    /\ pool.pc = "idle"
    /\ IF tasks[id] # NoTask
       THEN /\ pool' = [pc |-> "add", id |-> id]
            /\ UNCHANGED hist
       ELSE /\ hist' = [hist EXCEPT !.last = [op |-> "cancel", id |-> id, ret |-> FALSE]]
            /\ UNCHANGED pool
    /\ UNCHANGED <<backend, threading, storeUp, patterns, fs, files, results, nextId,
                   now, tasks, cancelledSet, ix, sc, cn>>

\* cancel_task: self._cancelled.add(task_id)
CancelAdd ==
    /\ pool.pc = "add"
    /\ cancelledSet' = cancelled_add(cancelledSet, pool.id)
    /\ pool' = [pool EXCEPT !.pc = "update"]
    /\ hist' = [hist EXCEPT !.flag[pool.id] = TRUE]
    /\ UNCHANGED <<backend, threading, storeUp, patterns, fs, files, results, nextId,
                   now, tasks, ix, sc, cn>>

\* cancel_task: self.update_task(task_id, status="cancelling"); return True
CancelUpdate ==
    /\ pool.pc = "update"
    /\ cn[pool.id] < MaxPublished
    /\ tasks' = update_task(tasks, pool.id, [status |-> "cancelling"])
    /\ cn' = [cn EXCEPT ![pool.id] = @ + 1]
    /\ pool' = [pc |-> "idle"]
    /\ hist' = [hist EXCEPT !.last = [op |-> "cancel", id |-> pool.id, ret |-> TRUE]]
    /\ UNCHANGED <<backend, threading, storeUp, patterns, fs, files, results, nextId,
                   now, cancelledSet, ix, sc>>

\* cleanup(task_id)
CancelCleanup(id) ==
    /\ pool.pc = "idle"
    /\ tasks' = [tasks EXCEPT ![id] = NoTask]
    /\ cancelledSet' = cancelled_discard(cancelledSet, id)
    /\ cn' = [cn EXCEPT ![id] = 0]
    /\ hist' = [hist EXCEPT !.flag[id] = FALSE, !.last = [op |-> "cleanup", id |-> id]]
    /\ UNCHANGED <<backend, threading, storeUp, patterns, fs, files, results, nextId,
                   now, ix, sc, pool>>

\* update_task(task_id, status=...) of a pipeline thread
CancelPipelineUpdate(id, status) ==
    /\ tasks[id] # NoTask
    /\ cn[id] < MaxPublished
    /\ tasks' = update_task(tasks, id, [status |-> status])
    /\ cn' = [cn EXCEPT ![id] = @ + 1]
    /\ hist' = [hist EXCEPT !.last = [op |-> "update", id |-> id]]
    /\ UNCHANGED <<backend, threading, storeUp, patterns, fs, files, results, nextId,
                   now, cancelledSet, ix, sc, pool>>

\* clear_cancelled(task_id) of a pipeline thread
CancelClear(id) ==
    /\ cancelledSet' = cancelled_discard(cancelledSet, id)
    /\ hist' = [hist EXCEPT !.flag[id] = FALSE, !.last = [op |-> "clear", id |-> id]]
    /\ UNCHANGED <<backend, threading, storeUp, patterns, fs, files, results, nextId,
                   now, tasks, ix, sc, pool, cn>>

CancelNext ==
    \/ \E id \in TaskIds : CancelCreate(id)
    \/ \E id \in TaskIds : CancelTest(id)
    \/ CancelAdd
    \/ CancelUpdate
    \/ \E id \in TaskIds : CancelCleanup(id)
    \/ \E id \in TaskIds, status \in {"processing", "completed"} :
          CancelPipelineUpdate(id, status)
    \/ \E id \in TaskIds : CancelClear(id)

SpecCancel == CancelInit /\ [][CancelNext]_vars

\* C31: cancel_task on a registered task adds the id to the cancelled set, sets
\* the status to cancelling and returns true; on an unregistered id it returns
\* false and changes no task, no cancelled set and publishes nothing;
\* is_cancelled(id) is true from a successful cancel until clear_cancelled or
\* cleanup of that id and false otherwise
C31_CancelEffect ==
    [][/\ (pool.pc = "idle" /\ hist'.last # hist.last /\ hist'.last.op = "cancel")
             => /\ hist'.last.ret = FALSE
                /\ tasks[hist'.last.id] = NoTask
                /\ UNCHANGED <<tasks, cancelledSet, cn>>
       /\ (pool.pc = "add" /\ pool'.pc = "update") => is_cancelled(pool.id)'
       /\ (pool.pc = "update" /\ pool'.pc = "idle")
             => /\ tasks'[pool.id].status = "cancelling"
                /\ hist'.last = [op |-> "cancel", id |-> pool.id, ret |-> TRUE]
       /\ \A id \in TaskIds : is_cancelled(id)' = hist'.flag[id]]_vars

C31_Witness ==
    /\ pool.pc = "idle"
    /\ hist.last = [op |-> "cancel", id |-> ScanId, ret |-> FALSE]
    /\ tasks[ScanId] = NoTask
    /\ IndexId \in cancelledSet
    /\ tasks[IndexId] # NoTask
    /\ tasks[IndexId].status = "cancelling"

-----------------------------------------------------------------------------
(* should_ignore on names and patterns spelled out character by character.
   In this specification patterns is the list of patterns, each a sequence of
   characters, and ix the call of should_ignore and what it returned. *)

MaxGlobLen == 3

NameChars == {"a", "A", "[", "]"}
PatternChars == {"a", "[", "]", "*", "?"}

GlobStrings(chars) == UNION {[1..n -> chars] : n \in 0..MaxGlobLen}

\* the directories a name may arrive with
GlobDirs == {<<>>, <<"A", "/">>}

\* str.lower(), one character
lower_char(c) == IF c = "A" THEN "a" ELSE c

str_lower(str) == [i \in DOMAIN str |-> lower_char(str[i])]

\* os.path.basename: what follows the last separator
RECURSIVE os_path_basename(_)
os_path_basename(path) ==
    IF \E i \in DOMAIN path : path[i] = "/"
    THEN os_path_basename(Tail(path))
    ELSE path

\* fnmatch.translate, the scan for the end of a bracket expression that opens
\* at position 1: a "]" right after the "[" is a member; 0 when nothing closes it
RECURSIVE bracket_scan(_, _)
bracket_scan(pat, j) ==
    IF j > Len(pat) THEN 0
    ELSE IF pat[j] = "]" THEN j
    ELSE bracket_scan(pat, j + 1)

bracket_end(pat) ==
    IF Len(pat) >= 2 /\ pat[2] = "]" THEN bracket_scan(pat, 3) ELSE bracket_scan(pat, 2)

\* fnmatch.fnmatch(name, pat) on a POSIX system (normcase is the identity):
\* "*" any run, "?" any one character, "[seq]" one character of seq, a "["
\* that nothing closes and every other character stand for themselves
RECURSIVE glob_match(_, _)
glob_match(name, pat) ==
    IF pat = <<>> THEN name = <<>>
    ELSE IF Head(pat) = "*"
    THEN \/ glob_match(name, Tail(pat))
         \/ (name # <<>> /\ glob_match(Tail(name), pat))
    ELSE IF name = <<>> THEN FALSE
    ELSE IF Head(pat) = "?" THEN glob_match(Tail(name), Tail(pat))
    ELSE IF Head(pat) = "[" /\ bracket_end(pat) # 0
    THEN /\ \E i \in 2..(bracket_end(pat) - 1) : pat[i] = Head(name)
         /\ glob_match(Tail(name), SubSeq(pat, bracket_end(pat) + 1, Len(pat)))
    ELSE Head(name) = Head(pat) /\ glob_match(Tail(name), Tail(pat))

contains(str, c) == \E i \in DOMAIN str : str[i] = c

\* a test that takes every pattern for one with wildcards
always_wildcard(pat) == TRUE

\* `'*' not in pattern and '?' not in pattern`, negated
star_or_question(pat) == always_wildcard(pat) /\ (contains(pat, "*") \/ contains(pat, "?"))

\* IgnoredFilesConfig.should_ignore(filename)
config_should_ignore(list, filename) ==
    IF list = <<>> THEN FALSE
    ELSE \E i \in DOMAIN list :
            \/ glob_match(os_path_basename(filename), list[i])
            \/ /\ ~star_or_question(list[i])
               /\ str_lower(os_path_basename(filename)) = str_lower(list[i])

GlobInit ==
    /\ InitIdle
    /\ threading = FALSE
    /\ backend = "sqlite"
    /\ fs = [p \in Paths |-> NoFile]
    /\ files = {}
    /\ hist = NoOp
    /\ \E pat \in GlobStrings(PatternChars) :
          patterns \in {<<>>, <<pat>>, <<<<"A">>, pat>>}

\* ignored_files_store.should_ignore(filename)
GlobShouldIgnore(dir, base) ==
    /\ ix.pc = "idle"
    /\ ix' = [pc |-> "returned", dir |-> dir, base |-> base,
              value |-> config_should_ignore(patterns, dir \o base)]
    /\ UNCHANGED <<backend, threading, storeUp, patterns, fs, files, results, nextId,
                   now, tasks, cancelledSet, sc, pool, cn, hist>>

GlobNext ==
    \E dir \in GlobDirs, base \in GlobStrings(NameChars) : GlobShouldIgnore(dir, base)

SpecGlob == GlobInit /\ [][GlobNext]_vars

\* the pattern holds a character fnmatch gives a meaning to: "*", "?" or the
\* "[" of a bracket expression
has_meta(pat) ==
    \/ contains(pat, "*")
    \/ contains(pat, "?")
    \/ \E i \in DOMAIN pat :
          pat[i] = "[" /\ bracket_end(SubSeq(pat, i, Len(pat))) # 0

-----------------------------------------------------------------------------
(* The similarity configuration and its control surface. In this specification
   cn is the configuration held by SimilarityConfigStore (thresholds in
   hundredths) and hist.last the last request and whether it was accepted. *)

SensitivityLevels == {"low", "medium", "high", "custom"}

ThresholdKeys == {"similarity_threshold", "high_confidence_threshold",
                  "exact_match_threshold"}

\* the values a request or the environment may carry, in hundredths
ThresholdValues == {0, 50, 90, 100, 120}

\* SimilarityConfig.from_sensitivity_level(level)
from_sensitivity_level(level) ==
    CASE level = "low" ->
            [sensitivity_level |-> level, similarity_threshold |-> 80,
             high_confidence_threshold |-> 92,
             exact_match_threshold |-> exact_match_threshold]
      [] level = "high" ->
            [sensitivity_level |-> level, similarity_threshold |-> 50,
             high_confidence_threshold |-> 75,
             exact_match_threshold |-> exact_match_threshold]
      [] OTHER ->
            [sensitivity_level |-> level, similarity_threshold |-> similarity_threshold,
             high_confidence_threshold |-> high_confidence_threshold,
             exact_match_threshold |-> exact_match_threshold]

\* setattr(config, key, value) for the keys of kwargs, in the order of the
\* fields of SimilarityConfigUpdate; a change of similarity_threshold or of
\* high_confidence_threshold sets the level to custom
set_thresholds(config, kwargs) ==
    [k \in DOMAIN config |->
        IF k \in DOMAIN kwargs THEN kwargs[k]
        ELSE IF k = "sensitivity_level"
                /\ (DOMAIN kwargs) \cap {"similarity_threshold",
                                         "high_confidence_threshold"} # {}
        THEN "custom"
        ELSE config[k]]

\* SimilarityConfigStore.update_config(**kwargs)
update_config(config, level, kwargs) ==
    set_thresholds(IF level = "absent" THEN config
                   ELSE IF level # "custom" THEN from_sensitivity_level(level)
                   ELSE [config EXCEPT !.sensitivity_level = level],
                   kwargs)

\* the partial assignments of thresholds a request or the environment carries
ThresholdUpdates ==
    UNION {[keys -> ThresholdValues] : keys \in SUBSET ThresholdKeys}

\* update_similarity_config: the checks that answer 400
update_rejected(kwargs) ==
    \E k \in (DOMAIN kwargs) \cap {"similarity_threshold", "high_confidence_threshold"} :
        kwargs[k] < 0 \/ kwargs[k] > 100

\* SimilarityConfigStore._load_from_env: the preset of SIMILARITY_SENSITIVITY,
\* then the thresholds the environment sets
ThresholdInit ==
    /\ storeUp = TRUE
    /\ results = {}
    /\ nextId = 1
    /\ now = 1
    /\ tasks = [id \in TaskIds |-> NoTask]
    /\ cancelledSet = {}
    /\ ix = IdlePipeline
    /\ sc = IdlePipeline
    /\ pool = IdlePipeline
    /\ threading = FALSE
    /\ patterns = {}
    /\ backend = "sqlite"
    /\ fs = [p \in Paths |-> NoFile]
    /\ files = {}
    /\ hist = [last |-> NoOp]
    /\ \E level \in SensitivityLevels, env \in ThresholdUpdates :
          cn = [k \in DOMAIN from_sensitivity_level(level) |->
                   IF k \in DOMAIN env THEN env[k] ELSE from_sensitivity_level(level)[k]]

\* PUT /config/similarity
update_similarity_config(level, kwargs) ==
    /\ IF update_rejected(kwargs)
       THEN /\ hist' = [last |-> [op |-> "update", accepted |-> FALSE]]
            /\ UNCHANGED cn
       ELSE /\ hist' = [last |-> [op |-> "update", accepted |-> TRUE]]
            /\ cn' = update_config(cn, level, kwargs)
    /\ UNCHANGED <<backend, threading, storeUp, patterns, fs, files, results, nextId,
                   now, tasks, cancelledSet, ix, sc, pool>>

\* POST /config/similarity/reset
reset_similarity_config ==
    /\ cn' = from_sensitivity_level("medium")
    /\ hist' = [last |-> [op |-> "reset", accepted |-> TRUE]]
    /\ UNCHANGED <<backend, threading, storeUp, patterns, fs, files, results, nextId,
                   now, tasks, cancelledSet, ix, sc, pool>>

ThresholdNext ==
    \/ \E level \in SensitivityLevels \cup {"absent"}, kwargs \in ThresholdUpdates :
          update_similarity_config(level, kwargs)
    \/ reset_similarity_config

SpecThresholds == ThresholdInit /\ [][ThresholdNext]_vars

\* C39: in every reachable similarity configuration the thresholds are ordered
\* and in range: 0 <= similarity_threshold <= high_confidence_threshold <=
\* exact_match_threshold <= 1
C39_ThresholdsOrdered ==
    /\ 0 <= cn.similarity_threshold
    /\ cn.similarity_threshold <= cn.high_confidence_threshold
    /\ cn.high_confidence_threshold <= cn.exact_match_threshold
    /\ cn.exact_match_threshold <= 100

\* the same, for the configurations reached through the control surface from
\* the defaults
C39_OrderedAfterUpdates ==
    [][(C39_ThresholdsOrdered /\ hist'.last.op = "update") => C39_ThresholdsOrdered']_vars

\* ---------------------------------------------------------------------------
\* SpecSwitch: PUT /config/storage. Here backend is _config.backend in memory,
\* cn the Redis connection settings in memory, fs the lines of the dotfile that
\* name STORAGE_BACKEND, storeUp tells whether the dotfile can be written, sc is
\* the request being handled and hist counts the requests.
\* ---------------------------------------------------------------------------

SwitchLines ==
    [key : {"STORAGE_BACKEND"}, value : {"sqlite", "redis"}, form : {"active", "commented"}]

SwitchFiles == UNION {[1..n -> SwitchLines] : n \in 0..2}

\* the values the dotfile gives STORAGE_BACKEND when it is loaded
dotenv_values(content) ==
    {content[i].value : i \in {j \in DOMAIN content : content[j].form = "active"}}

\* _persist followed by persist_env_vars, as to STORAGE_BACKEND: a file that
\* cannot be written is left as it is and the failure is not reported
switch_persist(content, writable, value) ==
    IF ~writable THEN content ELSE persist_env_var(content, "STORAGE_BACKEND", value)

\* the backend is taken from the environment of the process, which the dotfile
\* completes; the file may or may not be writable by the service
SwitchInit ==
    /\ results = {}
    /\ nextId = 1
    /\ now = 1
    /\ tasks = [id \in TaskIds |-> NoTask]
    /\ cancelledSet = {}
    /\ ix = IdlePipeline
    /\ pool = IdlePipeline
    /\ threading = TRUE
    /\ patterns = {}
    /\ files = {}
    /\ backend \in {"sqlite", "redis"}
    /\ storeUp \in BOOLEAN
    /\ fs \in SwitchFiles
    /\ cn = [redis_host |-> "host1"]
    /\ sc = [pc |-> "idle", new_backend |-> "none"]
    /\ hist = [requests |-> 0]

\* update_storage_config up to the switch: an unknown backend is answered with
\* 400; with redis the connection settings are changed in place and persisted
SwitchRequest(name, host) ==
    /\ sc.pc \in {"idle", "invalid", "returned", "rejected"}
    /\ hist.requests < MaxConfigChanges
    /\ hist' = [hist EXCEPT !.requests = @ + 1]
    /\ IF name \notin {"sqlite", "redis"}
       THEN /\ sc' = [pc |-> "invalid", new_backend |-> "none"]
            /\ UNCHANGED <<cn, fs>>
       ELSE /\ sc' = [pc |-> "set", new_backend |-> name]
            /\ IF name = "redis"
               THEN /\ cn' = [cn EXCEPT !.redis_host = host]
                    /\ fs' = switch_persist(fs, storeUp, backend)
               ELSE UNCHANGED <<cn, fs>>
    /\ UNCHANGED <<backend, threading, storeUp, patterns, files, results, nextId, now,
                   tasks, cancelledSet, ix, pool>>

\* storage_config_store.set_backend(new_backend)
SwitchSetBackend ==
    /\ sc.pc = "set"
    /\ backend' = sc.new_backend
    /\ fs' = switch_persist(fs, storeUp, sc.new_backend)
    /\ sc' = [sc EXCEPT !.pc = "check"]
    /\ UNCHANGED <<threading, storeUp, patterns, files, results, nextId, now, tasks,
                   cancelledSet, ix, pool, cn, hist>>

\* health = check_storage_health(): the store selected answers or it does not
\* (an exception counts as unhealthy); an unhealthy sqlite is not reverted
SwitchCheck(healthy) ==
    /\ sc.pc = "check"
    /\ sc' = [sc EXCEPT !.pc = IF ~healthy /\ sc.new_backend = "redis"
                                 THEN "revert" ELSE "returned"]
    /\ UNCHANGED <<backend, threading, storeUp, patterns, fs, files, results, nextId,
                   now, tasks, cancelledSet, ix, pool, cn, hist>>

\* set_backend(StorageBackend.SQLITE) and the 503 answer
SwitchRevert ==
    /\ sc.pc = "revert"
    /\ backend' = "sqlite"
    /\ fs' = switch_persist(fs, storeUp, "sqlite")
    /\ sc' = [sc EXCEPT !.pc = "rejected"]
    /\ UNCHANGED <<threading, storeUp, patterns, files, results, nextId, now, tasks,
                   cancelledSet, ix, pool, cn, hist>>

SwitchNext ==
    \/ \E name \in {"sqlite", "redis", "mongo"}, host \in {"host1", "host2"} :
           SwitchRequest(name, host)
    \/ SwitchSetBackend
    \/ \E healthy \in BOOLEAN : SwitchCheck(healthy)
    \/ SwitchRevert

SpecSwitch == SwitchInit /\ [][SwitchNext]_vars

\* C40: when update_storage_config selects redis and the health check of the new
\* backend fails, the request is rejected and afterwards the active backend is
\* sqlite both in memory and in the persisted STORAGE_BACKEND value; the backend
\* is never left at redis after a failed health check. Checked under SpecSwitch.
\* A dotfile with no active line is read as sqlite, the default of from_env.
C40_FailedSwitchRolledBack ==
    sc.pc = "rejected" => (backend = "sqlite" /\ "redis" \notin dotenv_values(fs))

\* the part of C40 that concerns the configuration in memory
C40_RolledBackInMemory == sc.pc = "rejected" => backend = "sqlite"

\* the whole of C40 when the dotfile can be written
C40_RolledBackWhenWritable ==
    (sc.pc = "rejected" /\ storeUp) => (backend = "sqlite" /\ dotenv_values(fs) = {"sqlite"})

============================================================================
